---- MODULE Spec2Model ----
(***************************************************************************)
(* Directed simple graphs of ModelagemGrafos: the list representation      *)
(* (AdjacencyListGraph) and the matrix representation                      *)
(* (AdjacencyMatrixGraph), both built with the same vertex count and       *)
(* driven by the same sequence of mutating calls.  Mutators are actions;   *)
(* read-only methods are operators over the current state that return a    *)
(* record [raised, value].  The engines of src/utils (CentralityMetrics,   *)
(* CommunityMetrics, StructureMetrics, GraphMetricsAnalyzer) read one of    *)
(* the two graphs; a call of an engine method is a process whose loops      *)
(* advance one iteration or one visited vertex per step.                    *)
(***************************************************************************)
EXTENDS Integers, Sequences, FiniteSets, TLC

\* ------------------------------------------------------------------ bounds
MaxVertices == 3
MaxCalls == 3
\* add_edge calls that build the graph of an engine
MaxEdges == 1
\* passes of an iterative engine method that are followed
MaxIter == 2
\* vertices and add_edge calls of the graphs whose shape is measured
MaxShapeVertices == 4
MaxShapeEdges == 4

\* Vertex indices passed by callers: in range, negative and too large.
VertexArgs == -1 .. MaxVertices
\* Weights passed to set_edge_weight and to set_vertex_weight (float values
\* that a float64 cell stores exactly; "pode ser negativo").
WeightArgs == {2}
VertexWeightArgs == {5}
LabelArgs == {"a"}

\* Python's None (unset label, no return value, no exception).
None == "None"

VARIABLES
    num_vertices,           \* AbstractGraph._num_vertices (same for both)
    list_adjacency_list,    \* AdjacencyListGraph._adjacency_list
    list_edge_weights,      \* AdjacencyListGraph._edge_weights (dict)
    list_num_edges,         \* AdjacencyListGraph._num_edges
    list_vertex_weights,    \* AdjacencyListGraph._vertex_weights
    list_vertex_labels,     \* AdjacencyListGraph._vertex_labels
    matrix_adjacency_matrix,\* AdjacencyMatrixGraph._adjacency_matrix
    matrix_edge_weights,    \* AdjacencyMatrixGraph._edge_weights (array)
    matrix_num_edges,       \* AdjacencyMatrixGraph._num_edges
    matrix_vertex_weights,  \* AdjacencyMatrixGraph._vertex_weights
    matrix_vertex_labels,   \* AdjacencyMatrixGraph._vertex_labels
    call,                   \* the last mutating call: [op, args]
    list_raised,            \* exception the last call raised on the list graph
    matrix_raised,          \* exception the last call raised on the matrix graph
    calls,                  \* number of calls made so far
    method,                 \* the engine method being run, None before a call
    self_graph,             \* the representation behind the engine's self.graph
    params,                 \* the arguments of the engine call
    pc,                     \* "idle", "loop" (inside the method's loop), "returned"
    iteration,              \* iterations of the method's outer loop started so far
    changed,                \* changed (label propagation) / improved (louvain)
    unvisited,              \* the vertices of the shuffled list not yet visited
    labels,                 \* the labels / communities dict of a detection
    centrality,             \* the pagerank / centrality dict of a power iteration
    ranking,                \* the list returned by a method that returns one
    results,                \* the value returned by a method that returns one
    engine_raised           \* exception the engine call raised

listVars == <<list_adjacency_list, list_edge_weights, list_num_edges,
              list_vertex_weights, list_vertex_labels>>
matrixVars == <<matrix_adjacency_matrix, matrix_edge_weights, matrix_num_edges,
                matrix_vertex_weights, matrix_vertex_labels>>
engineVars == <<method, self_graph, params, pc, iteration, changed, unvisited,
                labels, centrality, ranking, results, engine_raised>>
vars == <<num_vertices, listVars, matrixVars, call, list_raised, matrix_raised, calls,
          engineVars>>

\* range(self._num_vertices)
Vertices == 0 .. (num_vertices - 1)

\* ------------------------------------------------------------- exceptions
NoException == [cls |-> None, msg |-> "", args |-> <<>>]

InvalidVertexException(vertex, max_vertex) ==
    [cls |-> "InvalidVertexException", msg |-> "Vertice invalido",
     args |-> <<vertex, max_vertex>>]

loop_not_allowed(u) ==
    [cls |-> "InvalidEdgeException", msg |-> "Lacos nao sao permitidos",
     args |-> <<u, u>>]

edge_not_found(u, v) ==
    [cls |-> "InvalidEdgeException", msg |-> "Aresta nao existe",
     args |-> <<u, v>>]

KeyError(u, v) ==
    [cls |-> "KeyError", msg |-> "", args |-> <<u, v>>]

\* ValueError(f"Métrica '{metric}' não reconhecida")
ValueError(metric) ==
    [cls |-> "ValueError", msg |-> "Metrica nao reconhecida", args |-> <<metric>>]

\* ------------------------------------------------------------- validation
\* _validate_vertex: the exception it raises, NoException when it returns.
_validate_vertex(v) ==
    IF ~(0 <= v /\ v < num_vertices)
    THEN InvalidVertexException(v, num_vertices - 1)
    ELSE NoException

\* _validate_edge that tests for a loop before it validates the vertices
loop_first_validate_edge(u, v) ==
    IF u = v THEN loop_not_allowed(u)
    ELSE IF _validate_vertex(u) # NoException THEN _validate_vertex(u)
    ELSE _validate_vertex(v)

\* _validate_edge with the loop test forgotten
no_loop_test_validate_edge(u, v) ==
    IF _validate_vertex(u) # NoException THEN _validate_vertex(u)
    ELSE _validate_vertex(v)

\* _validate_edge: both vertices first, then the loop test.
_validate_edge(u, v) ==
    IF _validate_vertex(u) # NoException THEN _validate_vertex(u)
    ELSE IF _validate_vertex(v) # NoException THEN _validate_vertex(v)
    ELSE IF u = v THEN loop_not_allowed(u)
    ELSE NoException

\* the two-vertex prologue of has_edge, remove_edge, set/get_edge_weight
validate_pair(u, v) ==
    IF _validate_vertex(u) # NoException THEN _validate_vertex(u)
    ELSE _validate_vertex(v)

\* ---------------------------------------------------------- Python lists
\* v in lst
In(v, lst) == \E i \in 1 .. Len(lst) : lst[i] = v

\* the elements of a Python list
Elements(lst) == {lst[i] : i \in 1 .. Len(lst)}

\* f(0) + ... + f(n-1)
RECURSIVE SumUpTo(_, _)
SumUpTo(f, n) == IF n = 0 THEN 0 ELSE SumUpTo(f, n - 1) + f[n - 1]

\* lst.remove(v): drops the first occurrence of v
RECURSIVE ListRemove(_, _)
ListRemove(lst, v) ==
    IF lst = <<>> THEN <<>>
    ELSE IF Head(lst) = v THEN Tail(lst)
    ELSE <<Head(lst)>> \o ListRemove(Tail(lst), v)

\* The kind of an error is the exception class, which is what an except
\* clause or pytest.raises tells errors apart by.
ErrorKind(e) == e.cls

\* a query's result
Returns(x) == [raised |-> NoException, value |-> x]
Raises(e) == [raised |-> e, value |-> None]

\* d[k] = val on a dict
DictSet(d, k, val) == [p \in (DOMAIN d) \cup {k} |-> IF p = k THEN val ELSE d[p]]

\* del d[k] on a dict that holds k
DictDel(d, k) == [p \in (DOMAIN d) \ {k} |-> d[p]]

\* ------------------------------------------------ AdjacencyListGraph reads
List_get_edge_count == list_num_edges

List_has_edge(u, v) ==
    IF validate_pair(u, v) # NoException THEN Raises(validate_pair(u, v))
    ELSE Returns(In(v, list_adjacency_list[u]))

\* the counting loop of get_vertex_in_degree over range(n)
RECURSIVE List_in_degree_loop(_, _)
List_in_degree_loop(u, n) ==
    IF n = 0 THEN 0
    ELSE List_in_degree_loop(u, n - 1)
         + (IF In(u, list_adjacency_list[n - 1]) THEN 1 ELSE 0)

List_get_vertex_in_degree(u) ==
    IF _validate_vertex(u) # NoException THEN Raises(_validate_vertex(u))
    ELSE Returns(List_in_degree_loop(u, num_vertices))

List_get_vertex_out_degree(u) ==
    IF _validate_vertex(u) # NoException THEN Raises(_validate_vertex(u))
    ELSE Returns(Len(list_adjacency_list[u]))

List_get_vertex_total_degree(u) ==
    IF List_get_vertex_in_degree(u).raised # NoException
    THEN List_get_vertex_in_degree(u)
    ELSE Returns(List_get_vertex_in_degree(u).value
                 + List_get_vertex_out_degree(u).value)

List_get_edge_weight(u, v) ==
    IF validate_pair(u, v) # NoException THEN Raises(validate_pair(u, v))
    ELSE IF ~In(v, list_adjacency_list[u]) THEN Raises(edge_not_found(u, v))
    ELSE IF <<u, v>> \notin DOMAIN list_edge_weights THEN Raises(KeyError(u, v))
    ELSE Returns(list_edge_weights[<<u, v>>])

List_get_successors(u) ==
    IF _validate_vertex(u) # NoException THEN Raises(_validate_vertex(u))
    ELSE Returns(list_adjacency_list[u])

\* the loop of get_predecessors over range(n)
RECURSIVE List_predecessors_loop(_, _)
List_predecessors_loop(u, n) ==
    IF n = 0 THEN <<>>
    ELSE IF In(u, list_adjacency_list[n - 1])
         THEN Append(List_predecessors_loop(u, n - 1), n - 1)
         ELSE List_predecessors_loop(u, n - 1)

List_get_predecessors(u) ==
    IF _validate_vertex(u) # NoException THEN Raises(_validate_vertex(u))
    ELSE Returns(List_predecessors_loop(u, num_vertices))

List_get_vertex_weight(v) ==
    IF _validate_vertex(v) # NoException THEN Raises(_validate_vertex(v))
    ELSE Returns(list_vertex_weights[v])

List_get_vertex_label(v) ==
    IF _validate_vertex(v) # NoException THEN Raises(_validate_vertex(v))
    ELSE Returns(list_vertex_labels[v])

\* the while loop of _dfs_from: stack.pop() takes the last element, a vertex
\* already visited is skipped, the others push their unvisited successors
RECURSIVE List_dfs_loop(_, _)
List_dfs_loop(visited, stack) ==
    IF stack = <<>> THEN visited
    ELSE LET u == stack[Len(stack)]
             rest == SubSeq(stack, 1, Len(stack) - 1)
         IN  IF u \in visited THEN List_dfs_loop(visited, rest)
             ELSE List_dfs_loop(visited \cup {u},
                      rest \o SelectSeq(list_adjacency_list[u],
                                  LAMBDA v : v \notin visited \cup {u}))

List_dfs_from(start) == List_dfs_loop({}, <<start>>)

\* is_connected that starts a search from vertex 0 only
List_is_connected_from_first_only ==
    IF num_vertices = 0 THEN TRUE
    ELSE IF num_vertices = 1 THEN TRUE
    ELSE Cardinality(List_dfs_from(0)) = num_vertices

List_is_connected ==
    IF num_vertices = 0 THEN TRUE
    ELSE IF num_vertices = 1 THEN TRUE
    ELSE \A start \in Vertices :
             Cardinality(List_dfs_from(start)) = num_vertices

List_is_empty_graph == list_num_edges = 0

\* is_complete_graph that expects V * V edges
List_is_complete_graph_counts_loops ==
    IF num_vertices <= 1 THEN TRUE
    ELSE list_num_edges = num_vertices * num_vertices

List_is_complete_graph ==
    IF num_vertices <= 1 THEN TRUE
    ELSE list_num_edges = num_vertices * (num_vertices - 1)

\* ---------------------------------------------- AdjacencyMatrixGraph reads
Matrix_get_edge_count == matrix_num_edges

Matrix_has_edge(u, v) ==
    IF validate_pair(u, v) # NoException THEN Raises(validate_pair(u, v))
    ELSE Returns(matrix_adjacency_matrix[u, v])

\* int(np.sum(column u)) and int(np.sum(row u)) over the first n cells
RECURSIVE Matrix_column_sum(_, _)
Matrix_column_sum(u, n) ==
    IF n = 0 THEN 0
    ELSE Matrix_column_sum(u, n - 1)
         + (IF matrix_adjacency_matrix[n - 1, u] THEN 1 ELSE 0)

\* row sum that starts at cell 1 instead of cell 0
RECURSIVE Matrix_row_sum_from_one(_, _)
Matrix_row_sum_from_one(u, n) ==
    IF n <= 1 THEN 0
    ELSE Matrix_row_sum_from_one(u, n - 1)
         + (IF matrix_adjacency_matrix[u, n - 1] THEN 1 ELSE 0)

RECURSIVE Matrix_row_sum(_, _)
Matrix_row_sum(u, n) ==
    IF n = 0 THEN 0
    ELSE Matrix_row_sum(u, n - 1)
         + (IF matrix_adjacency_matrix[u, n - 1] THEN 1 ELSE 0)

\* get_vertex_in_degree that sums the row of u instead of its column
Matrix_get_vertex_in_degree_sums_row(u) ==
    IF _validate_vertex(u) # NoException THEN Raises(_validate_vertex(u))
    ELSE Returns(Matrix_row_sum(u, num_vertices))

Matrix_get_vertex_in_degree(u) ==
    IF _validate_vertex(u) # NoException THEN Raises(_validate_vertex(u))
    ELSE Returns(Matrix_column_sum(u, num_vertices))

Matrix_get_vertex_out_degree(u) ==
    IF _validate_vertex(u) # NoException THEN Raises(_validate_vertex(u))
    ELSE Returns(Matrix_row_sum(u, num_vertices))

Matrix_get_vertex_total_degree(u) ==
    IF Matrix_get_vertex_in_degree(u).raised # NoException
    THEN Matrix_get_vertex_in_degree(u)
    ELSE Returns(Matrix_get_vertex_in_degree(u).value
                 + Matrix_get_vertex_out_degree(u).value)

Matrix_get_edge_weight(u, v) ==
    IF validate_pair(u, v) # NoException THEN Raises(validate_pair(u, v))
    ELSE IF ~matrix_adjacency_matrix[u, v] THEN Raises(edge_not_found(u, v))
    ELSE Returns(matrix_edge_weights[u, v])

\* the loops of get_successors / get_predecessors over range(n)
\* successors read from the column of u instead of its row
RECURSIVE Matrix_successors_loop_transposed(_, _)
Matrix_successors_loop_transposed(u, n) ==
    IF n = 0 THEN <<>>
    ELSE IF matrix_adjacency_matrix[n - 1, u]
         THEN Append(Matrix_successors_loop_transposed(u, n - 1), n - 1)
         ELSE Matrix_successors_loop_transposed(u, n - 1)

RECURSIVE Matrix_successors_loop(_, _)
Matrix_successors_loop(u, n) ==
    IF n = 0 THEN <<>>
    ELSE IF matrix_adjacency_matrix[u, n - 1]
         THEN Append(Matrix_successors_loop(u, n - 1), n - 1)
         ELSE Matrix_successors_loop(u, n - 1)

RECURSIVE Matrix_predecessors_loop(_, _)
Matrix_predecessors_loop(u, n) ==
    IF n = 0 THEN <<>>
    ELSE IF matrix_adjacency_matrix[n - 1, u]
         THEN Append(Matrix_predecessors_loop(u, n - 1), n - 1)
         ELSE Matrix_predecessors_loop(u, n - 1)

Matrix_get_successors(u) ==
    IF _validate_vertex(u) # NoException THEN Raises(_validate_vertex(u))
    ELSE Returns(Matrix_successors_loop(u, num_vertices))

Matrix_get_predecessors(u) ==
    IF _validate_vertex(u) # NoException THEN Raises(_validate_vertex(u))
    ELSE Returns(Matrix_predecessors_loop(u, num_vertices))

Matrix_get_vertex_weight(v) ==
    IF _validate_vertex(v) # NoException THEN Raises(_validate_vertex(v))
    ELSE Returns(matrix_vertex_weights[v])

Matrix_get_vertex_label(v) ==
    IF _validate_vertex(v) # NoException THEN Raises(_validate_vertex(v))
    ELSE Returns(matrix_vertex_labels[v])

\* the while loop of _dfs_from; the successors come from row u, ascending
RECURSIVE Matrix_dfs_loop(_, _)
Matrix_dfs_loop(visited, stack) ==
    IF stack = <<>> THEN visited
    ELSE LET u == stack[Len(stack)]
             rest == SubSeq(stack, 1, Len(stack) - 1)
         IN  IF u \in visited THEN Matrix_dfs_loop(visited, rest)
             ELSE Matrix_dfs_loop(visited \cup {u},
                      rest \o SelectSeq(Matrix_successors_loop(u, num_vertices),
                                  LAMBDA v : v \notin visited \cup {u}))

Matrix_dfs_from(start) == Matrix_dfs_loop({}, <<start>>)

Matrix_is_connected ==
    IF num_vertices = 0 THEN TRUE
    ELSE IF num_vertices = 1 THEN TRUE
    ELSE \A start \in Vertices :
             Cardinality(Matrix_dfs_from(start)) = num_vertices

Matrix_is_empty_graph == matrix_num_edges = 0

Matrix_is_complete_graph ==
    IF num_vertices <= 1 THEN TRUE
    ELSE matrix_num_edges = num_vertices * (num_vertices - 1)

\* ---------------------------------------------- AdjacencyListGraph writes
\* add_edge that counts an edge it already holds
List_add_edge_counts_duplicates(u, v) ==
    IF _validate_edge(u, v) # NoException
    THEN /\ list_raised' = _validate_edge(u, v)
         /\ UNCHANGED listVars
    ELSE /\ list_adjacency_list' =
                [list_adjacency_list EXCEPT
                    ![u] = IF In(v, @) THEN @ ELSE Append(@, v)]
         /\ list_edge_weights' =
                IF In(v, list_adjacency_list[u]) THEN list_edge_weights
                ELSE DictSet(list_edge_weights, <<u, v>>, 0)
         /\ list_num_edges' = list_num_edges + 1
         /\ list_raised' = NoException
         /\ UNCHANGED <<list_vertex_weights, list_vertex_labels>>

List_add_edge(u, v) ==
    IF _validate_edge(u, v) # NoException
    THEN /\ list_raised' = _validate_edge(u, v)
         /\ UNCHANGED listVars
    ELSE IF ~In(v, list_adjacency_list[u])
    THEN /\ list_adjacency_list' =
                [list_adjacency_list EXCEPT ![u] = Append(@, v)]
         /\ list_edge_weights' = DictSet(list_edge_weights, <<u, v>>, 0)
         /\ list_num_edges' = list_num_edges + 1
         /\ list_raised' = NoException
         /\ UNCHANGED <<list_vertex_weights, list_vertex_labels>>
    ELSE /\ list_raised' = NoException
         /\ UNCHANGED listVars

List_remove_edge(u, v) ==
    IF validate_pair(u, v) # NoException
    THEN /\ list_raised' = validate_pair(u, v)
         /\ UNCHANGED listVars
    ELSE IF In(v, list_adjacency_list[u])
    THEN /\ list_adjacency_list' =
                [list_adjacency_list EXCEPT ![u] = ListRemove(@, v)]
         /\ IF <<u, v>> \in DOMAIN list_edge_weights
            THEN /\ list_edge_weights' = DictDel(list_edge_weights, <<u, v>>)
                 /\ list_num_edges' = list_num_edges - 1
                 /\ list_raised' = NoException
            ELSE /\ list_raised' = KeyError(u, v)
                 /\ UNCHANGED <<list_edge_weights, list_num_edges>>
         /\ UNCHANGED <<list_vertex_weights, list_vertex_labels>>
    ELSE /\ list_raised' = NoException
         /\ UNCHANGED listVars

\* set_edge_weight without the test that the edge exists
List_set_edge_weight_without_check(u, v, weight) ==
    IF validate_pair(u, v) # NoException
    THEN /\ list_raised' = validate_pair(u, v)
         /\ UNCHANGED listVars
    ELSE /\ list_edge_weights' = DictSet(list_edge_weights, <<u, v>>, weight)
         /\ list_raised' = NoException
         /\ UNCHANGED <<list_adjacency_list, list_num_edges,
                        list_vertex_weights, list_vertex_labels>>

List_set_edge_weight(u, v, weight) ==
    IF validate_pair(u, v) # NoException
    THEN /\ list_raised' = validate_pair(u, v)
         /\ UNCHANGED listVars
    ELSE IF ~In(v, list_adjacency_list[u])
    THEN /\ list_raised' = edge_not_found(u, v)
         /\ UNCHANGED listVars
    ELSE /\ list_edge_weights' = DictSet(list_edge_weights, <<u, v>>, weight)
         /\ list_raised' = NoException
         /\ UNCHANGED <<list_adjacency_list, list_num_edges,
                        list_vertex_weights, list_vertex_labels>>

List_set_vertex_weight(v, weight) ==
    IF _validate_vertex(v) # NoException
    THEN /\ list_raised' = _validate_vertex(v)
         /\ UNCHANGED listVars
    ELSE /\ list_vertex_weights' = [list_vertex_weights EXCEPT ![v] = weight]
         /\ list_raised' = NoException
         /\ UNCHANGED <<list_adjacency_list, list_edge_weights, list_num_edges,
                        list_vertex_labels>>

\* set_vertex_label that also clears the weight of the vertex
List_set_vertex_label_clears_weight(v, label) ==
    IF _validate_vertex(v) # NoException
    THEN /\ list_raised' = _validate_vertex(v)
         /\ UNCHANGED listVars
    ELSE /\ list_vertex_labels' = [list_vertex_labels EXCEPT ![v] = label]
         /\ list_vertex_weights' = [list_vertex_weights EXCEPT ![v] = 0]
         /\ list_raised' = NoException
         /\ UNCHANGED <<list_adjacency_list, list_edge_weights, list_num_edges>>

List_set_vertex_label(v, label) ==
    IF _validate_vertex(v) # NoException
    THEN /\ list_raised' = _validate_vertex(v)
         /\ UNCHANGED listVars
    ELSE /\ list_vertex_labels' = [list_vertex_labels EXCEPT ![v] = label]
         /\ list_raised' = NoException
         /\ UNCHANGED <<list_adjacency_list, list_edge_weights, list_num_edges,
                        list_vertex_weights>>

\* -------------------------------------------- AdjacencyMatrixGraph writes
\* add_edge that writes the default weight before testing for the edge
Matrix_add_edge_resets_weight(u, v) ==
    IF _validate_edge(u, v) # NoException
    THEN /\ matrix_raised' = _validate_edge(u, v)
         /\ UNCHANGED matrixVars
    ELSE /\ matrix_adjacency_matrix' =
                [matrix_adjacency_matrix EXCEPT ![u, v] = TRUE]
         /\ matrix_edge_weights' = [matrix_edge_weights EXCEPT ![u, v] = 0]
         /\ matrix_num_edges' =
                IF matrix_adjacency_matrix[u, v] THEN matrix_num_edges
                ELSE matrix_num_edges + 1
         /\ matrix_raised' = NoException
         /\ UNCHANGED <<matrix_vertex_weights, matrix_vertex_labels>>

Matrix_add_edge(u, v) ==
    IF _validate_edge(u, v) # NoException
    THEN /\ matrix_raised' = _validate_edge(u, v)
         /\ UNCHANGED matrixVars
    ELSE IF ~matrix_adjacency_matrix[u, v]
    THEN /\ matrix_adjacency_matrix' =
                [matrix_adjacency_matrix EXCEPT ![u, v] = TRUE]
         /\ matrix_edge_weights' = [matrix_edge_weights EXCEPT ![u, v] = 0]
         /\ matrix_num_edges' = matrix_num_edges + 1
         /\ matrix_raised' = NoException
         /\ UNCHANGED <<matrix_vertex_weights, matrix_vertex_labels>>
    ELSE /\ matrix_raised' = NoException
         /\ UNCHANGED matrixVars

\* remove_edge that decrements the counter for an edge it does not hold
Matrix_remove_edge_always_counts(u, v) ==
    IF validate_pair(u, v) # NoException
    THEN /\ matrix_raised' = validate_pair(u, v)
         /\ UNCHANGED matrixVars
    ELSE /\ matrix_adjacency_matrix' =
                [matrix_adjacency_matrix EXCEPT ![u, v] = FALSE]
         /\ matrix_edge_weights' = [matrix_edge_weights EXCEPT ![u, v] = 0]
         /\ matrix_num_edges' = matrix_num_edges - 1
         /\ matrix_raised' = NoException
         /\ UNCHANGED <<matrix_vertex_weights, matrix_vertex_labels>>

\* remove_edge that leaves the weight of the removed edge in its cell
Matrix_remove_edge_keeps_weight(u, v) ==
    IF validate_pair(u, v) # NoException
    THEN /\ matrix_raised' = validate_pair(u, v)
         /\ UNCHANGED matrixVars
    ELSE IF matrix_adjacency_matrix[u, v]
    THEN /\ matrix_adjacency_matrix' =
                [matrix_adjacency_matrix EXCEPT ![u, v] = FALSE]
         /\ matrix_num_edges' = matrix_num_edges - 1
         /\ matrix_raised' = NoException
         /\ UNCHANGED <<matrix_edge_weights, matrix_vertex_weights,
                        matrix_vertex_labels>>
    ELSE /\ matrix_raised' = NoException
         /\ UNCHANGED matrixVars

Matrix_remove_edge(u, v) ==
    IF validate_pair(u, v) # NoException
    THEN /\ matrix_raised' = validate_pair(u, v)
         /\ UNCHANGED matrixVars
    ELSE IF matrix_adjacency_matrix[u, v]
    THEN /\ matrix_adjacency_matrix' =
                [matrix_adjacency_matrix EXCEPT ![u, v] = FALSE]
         /\ matrix_edge_weights' = [matrix_edge_weights EXCEPT ![u, v] = 0]
         /\ matrix_num_edges' = matrix_num_edges - 1
         /\ matrix_raised' = NoException
         /\ UNCHANGED <<matrix_vertex_weights, matrix_vertex_labels>>
    ELSE /\ matrix_raised' = NoException
         /\ UNCHANGED matrixVars

\* set_edge_weight that also writes the cell of the reverse edge
Matrix_set_edge_weight_symmetric(u, v, weight) ==
    IF validate_pair(u, v) # NoException
    THEN /\ matrix_raised' = validate_pair(u, v)
         /\ UNCHANGED matrixVars
    ELSE IF ~matrix_adjacency_matrix[u, v]
    THEN /\ matrix_raised' = edge_not_found(u, v)
         /\ UNCHANGED matrixVars
    ELSE /\ matrix_edge_weights' =
                [matrix_edge_weights EXCEPT ![u, v] = weight, ![v, u] = weight]
         /\ matrix_raised' = NoException
         /\ UNCHANGED <<matrix_adjacency_matrix, matrix_num_edges,
                        matrix_vertex_weights, matrix_vertex_labels>>

Matrix_set_edge_weight(u, v, weight) ==
    IF validate_pair(u, v) # NoException
    THEN /\ matrix_raised' = validate_pair(u, v)
         /\ UNCHANGED matrixVars
    ELSE IF ~matrix_adjacency_matrix[u, v]
    THEN /\ matrix_raised' = edge_not_found(u, v)
         /\ UNCHANGED matrixVars
    ELSE /\ matrix_edge_weights' = [matrix_edge_weights EXCEPT ![u, v] = weight]
         /\ matrix_raised' = NoException
         /\ UNCHANGED <<matrix_adjacency_matrix, matrix_num_edges,
                        matrix_vertex_weights, matrix_vertex_labels>>

Matrix_set_vertex_weight(v, weight) ==
    IF _validate_vertex(v) # NoException
    THEN /\ matrix_raised' = _validate_vertex(v)
         /\ UNCHANGED matrixVars
    ELSE /\ matrix_vertex_weights' = [matrix_vertex_weights EXCEPT ![v] = weight]
         /\ matrix_raised' = NoException
         /\ UNCHANGED <<matrix_adjacency_matrix, matrix_edge_weights,
                        matrix_num_edges, matrix_vertex_labels>>

Matrix_set_vertex_label(v, label) ==
    IF _validate_vertex(v) # NoException
    THEN /\ matrix_raised' = _validate_vertex(v)
         /\ UNCHANGED matrixVars
    ELSE /\ matrix_vertex_labels' = [matrix_vertex_labels EXCEPT ![v] = label]
         /\ matrix_raised' = NoException
         /\ UNCHANGED <<matrix_adjacency_matrix, matrix_edge_weights,
                        matrix_num_edges, matrix_vertex_weights>>

\* ------------------------------------------------- the graph of an engine
\* An engine holds one AbstractGraph and reads it through the public
\* contract; graph names the representation behind it.
Graphs == {"list", "matrix"}

Graph_num_edges(graph) ==
    IF graph = "list" THEN list_num_edges ELSE matrix_num_edges

Graph_has_edge(graph, u, v) ==
    IF graph = "list" THEN List_has_edge(u, v).value
    ELSE Matrix_has_edge(u, v).value

Graph_get_successors(graph, u) ==
    IF graph = "list" THEN List_get_successors(u).value
    ELSE Matrix_get_successors(u).value

Graph_get_predecessors(graph, u) ==
    IF graph = "list" THEN List_get_predecessors(u).value
    ELSE Matrix_get_predecessors(u).value

Graph_get_vertex_in_degree(graph, u) ==
    IF graph = "list" THEN List_get_vertex_in_degree(u).value
    ELSE Matrix_get_vertex_in_degree(u).value

Graph_get_vertex_out_degree(graph, u) ==
    IF graph = "list" THEN List_get_vertex_out_degree(u).value
    ELSE Matrix_get_vertex_out_degree(u).value

Graph_get_vertex_label(graph, v) ==
    IF graph = "list" THEN List_get_vertex_label(v).value
    ELSE Matrix_get_vertex_label(v).value

\* A Python float that is the quotient of two integers, kept as the exact
\* fraction num / den with den > 0.
Ratio(num, den) == [num |-> num, den |-> den]

RECURSIVE GCD(_, _)
GCD(a, b) ==
    IF b = 0 THEN a ELSE CHOOSE g \in {GCD(b, r) : r \in {a % b}} : TRUE

Abs(x) == IF x < 0 THEN -x ELSE x

LCM(a, b) ==
    CHOOSE multiple \in {(x \div GCD(x, y)) * y : x \in {a}, y \in {b}} : TRUE

\* the same value in lowest terms
Reduced(r) ==
    CHOOSE lowest \in
        {LET g == GCD(Abs(x.num), x.den)
         IN  Ratio(x.num \div g, x.den \div g) : x \in {r}} : TRUE

\* a < b, a == b, a + b, a - b, a * b, abs(a) and a / k on floats kept as
\* fractions; a < b compares the integer parts, then the remainders. An
\* operand is evaluated once: x \in {a} binds x to the value of a.
RECURSIVE RatioLess(_, _)
RatioLess(a, b) ==
    \E x \in {a} : \E y \in {b} :
        LET floor_a == x.num \div x.den
            floor_b == y.num \div y.den
            rest_a == x.num % x.den
            rest_b == y.num % y.den
        IN  IF floor_a # floor_b THEN floor_a < floor_b
            ELSE IF rest_a = 0 THEN rest_b > 0
            ELSE IF rest_b = 0 THEN FALSE
            ELSE RatioLess(Ratio(y.den, rest_b), Ratio(x.den, rest_a))

RatioEqual(a, b) == ~RatioLess(a, b) /\ ~RatioLess(b, a)

RatioAdd(a, b) ==
    CHOOSE sum \in
        {LET m == LCM(x.den, y.den)
         IN  Reduced(Ratio(x.num * (m \div x.den) + y.num * (m \div y.den), m)) :
            x \in {a}, y \in {b}} : TRUE

RatioSub(a, b) ==
    CHOOSE difference \in {RatioAdd(a, Ratio(-y.num, y.den)) : y \in {b}} : TRUE

RatioMul(a, b) ==
    CHOOSE product \in
        {LET p == Reduced(Ratio(x.num, y.den))
             q == Reduced(Ratio(y.num, x.den))
         IN  Ratio(p.num * q.num, p.den * q.den) : x \in {a}, y \in {b}} : TRUE

RatioAbs(a) == CHOOSE absolute \in {Ratio(Abs(x.num), x.den) : x \in {a}} : TRUE

RatioDiv(a, k) == RatioMul(a, Ratio(1, k))

\* -------------------------------------------------------- StructureMetrics
\* network_density that divides by V - 1 instead of V * (V - 1)
network_density_per_vertex(graph) ==
    IF num_vertices <= 1 THEN Ratio(0, 1)
    ELSE LET num_edges == Graph_num_edges(graph)
             max_edges == num_vertices - 1
         IN  IF max_edges > 0 THEN Ratio(num_edges, max_edges) ELSE Ratio(0, 1)

network_density(graph) ==
    IF num_vertices <= 1 THEN Ratio(0, 1)
    ELSE LET num_edges == Graph_num_edges(graph)
             max_edges == num_vertices * (num_vertices - 1)
         IN  IF max_edges > 0 THEN Ratio(num_edges, max_edges) ELSE Ratio(0, 1)

\* the density entry of get_all_structure_metrics
get_all_structure_metrics(g) == [density |-> network_density(g)]

\* ------------------------------------------------------- CentralityMetrics
\* max_iter: int = 100, tol: float = 1e-6
DefaultMaxIter == 100
DefaultTol == Ratio(1, 1000000)

\* A dict filled in a for v in range(n) loop is a function on 0 .. n-1 whose
\* items come in ascending key order; {} is the empty function.
EmptyDict == <<>>

\* the dict with the items of f for the keys 0 .. n-1, filled key by key
RECURSIVE DictUpTo(_, _)
DictUpTo(f, n) ==
    IF n = 0 THEN EmptyDict ELSE DictUpTo(f, n - 1) @@ ((n - 1) :> f[n - 1])

\* degree_centrality: in-degree and out-degree over n - 1, their sum over
\* 2 * (n - 1); three empty dicts for at most one vertex
degree_centrality(g) ==
    IF num_vertices <= 1
    THEN [in_degree |-> EmptyDict, out_degree |-> EmptyDict, total |-> EmptyDict]
    ELSE LET max_degree == num_vertices - 1
             in_deg(v) == Graph_get_vertex_in_degree(g, v)
             out_deg(v) == Graph_get_vertex_out_degree(g, v)
         IN  [in_degree |-> DictUpTo([v \in Vertices |->
                  IF max_degree > 0 THEN Ratio(in_deg(v), max_degree)
                  ELSE Ratio(0, 1)], num_vertices),
              out_degree |-> DictUpTo([v \in Vertices |->
                  IF max_degree > 0 THEN Ratio(out_deg(v), max_degree)
                  ELSE Ratio(0, 1)], num_vertices),
              total |-> DictUpTo([v \in Vertices |->
                  IF max_degree > 0
                  THEN Ratio(in_deg(v) + out_deg(v), 2 * max_degree)
                  ELSE Ratio(0, 1)], num_vertices)]

\* the for w in get_successors(v) loop of _bfs_distances
RECURSIVE bfs_distances_successors(_, _, _)
bfs_distances_successors(v, successors, bfs) ==
    IF successors = <<>> THEN bfs
    ELSE LET w == Head(successors)
         IN  bfs_distances_successors(v, Tail(successors),
                 IF bfs.distances[w] < 0
                 THEN [distances |-> [bfs.distances EXCEPT
                                         ![w] = bfs.distances[v] + 1],
                       queue |-> Append(bfs.queue, w)]
                 ELSE bfs)

\* the while queue loop of _bfs_distances
RECURSIVE bfs_distances_loop(_, _)
bfs_distances_loop(g, bfs) ==
    IF bfs.queue = <<>> THEN bfs.distances
    ELSE LET v == Head(bfs.queue)
         IN  bfs_distances_loop(g,
                 bfs_distances_successors(v, Graph_get_successors(g, v),
                     [bfs EXCEPT !.queue = Tail(bfs.queue)]))

_bfs_distances(g, source) ==
    bfs_distances_loop(g,
        [distances |-> [v \in Vertices |-> IF v = source THEN 0 ELSE -1],
         queue |-> <<source>>])

\* closeness_centrality: (n_reachable / (n - 1)) * (n_reachable /
\* total_distance) over the vertices at a positive distance
closeness_centrality(g) ==
    IF num_vertices <= 1 THEN [v \in Vertices |-> Ratio(0, 1)]
    ELSE DictUpTo([v \in Vertices |->
            LET distances == _bfs_distances(g, v)
                reachable == {w \in Vertices : distances[w] > 0}
                total_distance ==
                    SumUpTo([w \in Vertices |->
                                IF distances[w] > 0 THEN distances[w] ELSE 0],
                            num_vertices)
                n_reachable == Cardinality(reachable)
            IN  IF n_reachable = 0 THEN Ratio(0, 1)
                ELSE IF total_distance > 0
                THEN RatioMul(Ratio(n_reachable, num_vertices - 1),
                              Ratio(n_reachable, total_distance))
                ELSE Ratio(0, 1)], num_vertices)

\* the for w in get_successors(v) loop of the BFS of betweenness_centrality
RECURSIVE brandes_successors(_, _, _)
brandes_successors(v, successors, bfs) ==
    IF successors = <<>> THEN bfs
    ELSE LET w == Head(successors)
             first == bfs.dist[w] < 0
             dist == IF first THEN [bfs.dist EXCEPT ![w] = bfs.dist[v] + 1]
                     ELSE bfs.dist
             queue == IF first THEN Append(bfs.queue, w) ELSE bfs.queue
             shortest == dist[w] = dist[v] + 1
         IN  brandes_successors(v, Tail(successors),
                 [queue |-> queue,
                  stack |-> bfs.stack,
                  dist |-> dist,
                  sigma |-> IF shortest
                            THEN [bfs.sigma EXCEPT ![w] = bfs.sigma[w] + bfs.sigma[v]]
                            ELSE bfs.sigma,
                  predecessors |->
                      IF shortest
                      THEN [bfs.predecessors EXCEPT
                               ![w] = Append(bfs.predecessors[w], v)]
                      ELSE bfs.predecessors])

\* the while queue loop of betweenness_centrality
RECURSIVE brandes_bfs(_, _)
brandes_bfs(g, bfs) ==
    IF bfs.queue = <<>> THEN bfs
    ELSE LET v == Head(bfs.queue)
         IN  brandes_bfs(g,
                 brandes_successors(v, Graph_get_successors(g, v),
                     [bfs EXCEPT !.queue = Tail(bfs.queue),
                                 !.stack = Append(bfs.stack, v)]))

\* the for v in predecessors[w] loop: delta[v] += (sigma[v] / sigma[w]) *
\* (1 + delta[w])
RECURSIVE brandes_dependencies(_, _, _, _)
brandes_dependencies(bfs, w, predecessors, delta) ==
    IF predecessors = <<>> THEN delta
    ELSE LET v == Head(predecessors)
         IN  brandes_dependencies(bfs, w, Tail(predecessors),
                 [delta EXCEPT ![v] =
                     RatioAdd(delta[v],
                              RatioMul(Ratio(bfs.sigma[v], bfs.sigma[w]),
                                       RatioAdd(Ratio(1, 1), delta[w])))])

\* the while stack loop that also adds the dependency of the source s
RECURSIVE brandes_accumulate_with_source(_, _, _, _, _)
brandes_accumulate_with_source(bfs, s, stack, delta, betweenness) ==
    IF stack = <<>> THEN betweenness
    ELSE LET w == stack[Len(stack)]
             now == brandes_dependencies(bfs, w, bfs.predecessors[w], delta)
         IN  brandes_accumulate_with_source(
                 bfs, s, SubSeq(stack, 1, Len(stack) - 1), now,
                 [betweenness EXCEPT ![w] = RatioAdd(betweenness[w], now[w])])

\* the while stack loop for the source s
RECURSIVE brandes_accumulate(_, _, _, _, _)
brandes_accumulate(bfs, s, stack, delta, betweenness) ==
    IF stack = <<>> THEN betweenness
    ELSE LET w == stack[Len(stack)]
             now == brandes_dependencies(bfs, w, bfs.predecessors[w], delta)
         IN  brandes_accumulate(bfs, s, SubSeq(stack, 1, Len(stack) - 1), now,
                 IF w # s
                 THEN [betweenness EXCEPT ![w] = RatioAdd(betweenness[w], now[w])]
                 ELSE betweenness)

\* the for s in range(self.num_vertices) loop, sources 0 .. n-1 done
RECURSIVE brandes_sources(_, _)
brandes_sources(g, n) ==
    IF n = 0 THEN [v \in Vertices |-> Ratio(0, 1)]
    ELSE LET s == n - 1
             bfs == brandes_bfs(g,
                        [queue |-> <<s>>,
                         stack |-> <<>>,
                         dist |-> [v \in Vertices |-> IF v = s THEN 0 ELSE -1],
                         sigma |-> [v \in Vertices |-> IF v = s THEN 1 ELSE 0],
                         predecessors |-> [v \in Vertices |-> <<>>]])
         IN  brandes_accumulate(bfs, s, bfs.stack,
                                [v \in Vertices |-> Ratio(0, 1)],
                                brandes_sources(g, n - 1))

\* betweenness_centrality: 0.0 everywhere for at most two vertices, else the
\* dependencies of Brandes' algorithm scaled by 1 / ((n - 1) * (n - 2))
betweenness_centrality(g) ==
    IF num_vertices <= 2 THEN [v \in Vertices |-> Ratio(0, 1)]
    ELSE LET betweenness == brandes_sources(g, num_vertices)
             scale == Ratio(1, (num_vertices - 1) * (num_vertices - 2))
         IN  DictUpTo([v \in Vertices |-> RatioMul(betweenness[v], scale)],
                      num_vertices)

\* max_diff: the largest of the |new[v] - old[v]|, 0.0 included
max_diff_of(new, old) ==
    LET diffs == {RatioAbs(RatioSub(new[v], old[v])) : v \in Vertices}
                     \cup {Ratio(0, 1)}
    IN  CHOOSE d \in diffs : \A e \in diffs : ~RatioLess(d, e)

damping == Ratio(17, 20)

\* the for u in get_predecessors(v) loop of pagerank
RECURSIVE pagerank_contributions(_, _, _, _)
pagerank_contributions(g, pr, predecessors, rank) ==
    IF predecessors = <<>> THEN rank
    ELSE LET u == Head(predecessors)
             out_degree == Graph_get_vertex_out_degree(g, u)
         IN  pagerank_contributions(g, pr, Tail(predecessors),
                 IF out_degree > 0
                 THEN RatioAdd(rank, RatioMul(damping, RatioDiv(pr[u], out_degree)))
                 ELSE rank)

\* one pass of the for _ in range(max_iter) loop of pagerank
pagerank_iteration(g, pr) ==
    DictUpTo([v \in Vertices |->
                 pagerank_contributions(g, pr, Graph_get_predecessors(g, v),
                     RatioDiv(RatioSub(Ratio(1, 1), damping), num_vertices))],
             num_vertices)

\* the for u in get_predecessors(v) loop of eigenvector_centrality
RECURSIVE eigenvector_contributions(_, _, _)
eigenvector_contributions(c, predecessors, sum) ==
    IF predecessors = <<>> THEN sum
    ELSE eigenvector_contributions(c, Tail(predecessors),
                                   RatioAdd(sum, c[Head(predecessors)]))

\* sum(new_centrality.values())
RECURSIVE ratio_sum_upto(_, _)
ratio_sum_upto(c, n) ==
    IF n = 0 THEN Ratio(0, 1)
    ELSE RatioAdd(ratio_sum_upto(c, n - 1), c[n - 1])

\* new_centrality divided by its sum when the sum is positive
eigenvector_normalised(new_centrality) ==
    CHOOSE normalised \in
        {IF RatioLess(Ratio(0, 1), norm)
         THEN DictUpTo([v \in Vertices |->
                           RatioMul(new_centrality[v], Ratio(norm.den, norm.num))],
                       num_vertices)
         ELSE new_centrality :
            norm \in {ratio_sum_upto(new_centrality, num_vertices)}} : TRUE

\* one pass of the power iteration of eigenvector_centrality, normalised
\* when the sum is positive
eigenvector_iteration(g, c) ==
    CHOOSE normalised \in
        {eigenvector_normalised(new_centrality) :
            new_centrality \in
                {DictUpTo([v \in Vertices |->
                              eigenvector_contributions(
                                  c, Graph_get_predecessors(g, v), Ratio(0, 1))],
                          num_vertices)}} : TRUE

\* {v: 1.0 / n for v in range(n)}
uniform == DictUpTo([v \in Vertices |-> Ratio(1, num_vertices)], num_vertices)

\* the loop of pagerank / eigenvector_centrality from pass k on: it stops
\* after the pass whose max_diff is below tol, and after max_iter passes
RECURSIVE power_iteration_loop(_, _, _, _, _, _)
power_iteration_loop(name, g, c, k, max_iter, tol) ==
    IF k >= max_iter THEN c
    ELSE LET new == IF name = "pagerank" THEN pagerank_iteration(g, c)
                    ELSE eigenvector_iteration(g, c)
         IN  IF RatioLess(max_diff_of(new, c), tol) THEN new
             ELSE power_iteration_loop(name, g, new, k + 1, max_iter, tol)

pagerank(g, max_iter, tol) ==
    IF num_vertices = 0 THEN EmptyDict
    ELSE power_iteration_loop("pagerank", g, uniform, 0, max_iter, tol)

eigenvector_centrality(g, max_iter, tol) ==
    IF num_vertices = 0 THEN EmptyDict
    ELSE power_iteration_loop("eigenvector_centrality", g, uniform, 0, max_iter, tol)

\* The passes pagerank() and eigenvector_centrality() are followed for when
\* they are called with their default max_iter.
power_iterations == IF DefaultMaxIter < MaxIter THEN DefaultMaxIter ELSE MaxIter

get_all_centralities(g) ==
    LET degree == degree_centrality(g)
    IN  [degree_in |-> degree.in_degree,
         degree_out |-> degree.out_degree,
         degree_total |-> degree.total,
         betweenness |-> betweenness_centrality(g),
         closeness |-> closeness_centrality(g),
         pagerank |-> pagerank(g, power_iterations, DefaultTol),
         eigenvector |-> eigenvector_centrality(g, power_iterations, DefaultTol)]

\* -------------------------------------------------------- CommunityMetrics
\* {v: v for v in range(self.num_vertices)}
own_community == [v \in Vertices |-> v]

\* neighbor_labels that reads the label of every vertex of the graph
neighbor_labels_of_every_vertex(g, lab, v) ==
    [i \in 1 .. num_vertices |-> lab[i - 1]] @@ <<>>

\* the labels of the successors of v followed by those of its predecessors
neighbor_labels(g, lab, v) ==
    CHOOSE nl \in
        {[i \in 1 .. Len(neighbors) |-> lab[neighbors[i]]] @@ <<>> :
            neighbors \in {Graph_get_successors(g, v)
                              \o Graph_get_predecessors(g, v)}} : TRUE

\* label_counts[label] of the tally
label_count(nl, label) == Cardinality({i \in 1 .. Len(nl) : nl[i] = label})

\* max without its key, which returns the largest label
most_common_label_without_key(nl) ==
    CHOOSE label \in {nl[i] : i \in 1 .. Len(nl)} :
        \A j \in 1 .. Len(nl) : nl[j] <= label

\* max(label_counts.items(), key=count)[0]: the dict keeps the labels in the
\* order they were first seen and max returns the first of the largest
most_common_label(nl) ==
    LET first == CHOOSE i \in 1 .. Len(nl) :
                     /\ \A j \in 1 .. Len(nl) :
                            label_count(nl, nl[j]) <= label_count(nl, nl[i])
                     /\ \A j \in 1 .. (i - 1) :
                            label_count(nl, nl[j]) < label_count(nl, nl[i])
    IN  nl[first]

\* the body of the for v in vertices loop of label propagation
label_propagation_visit(g, lab, v) ==
    CHOOSE updated \in
        {IF nl = <<>> THEN lab
         ELSE IF lab[v] # most_common_label(nl)
         THEN [lab EXCEPT ![v] = most_common_label(nl)]
         ELSE lab :
            nl \in {neighbor_labels(g, lab, v)}} : TRUE

\* the set of the values of a dict
Values(d) == {d[k] : k \in DOMAIN d}

\* _renumber_communities that numbers the communities from 1
_renumber_communities_from_one(comms) ==
    [v \in DOMAIN comms |->
        1 + Cardinality({c \in Values(comms) : c < comms[v]})]

\* _renumber_communities: comm_map sends each id to its rank among the
\* sorted distinct ids
_renumber_communities(comms) ==
    [v \in DOMAIN comms |->
        Cardinality({c \in Values(comms) : c < comms[v]})]

\* communities.get(i, -1)
get_community(comms, i) == IF i \in DOMAIN comms THEN comms[i] ELSE -1

\* _calculate_modularity that leaves out the pairs (i, i)
_calculate_modularity_distinct_pairs(g, comms, total_edges) ==
    IF total_edges = 0 THEN Ratio(0, 1)
    ELSE LET k_out == [i \in Vertices |-> Graph_get_vertex_out_degree(g, i)]
             k_in == [j \in Vertices |-> Graph_get_vertex_in_degree(g, j)]
             term(i, j) ==
                 IF i = j THEN 0
                 ELSE IF get_community(comms, i) < 0 THEN 0
                 ELSE IF get_community(comms, j) < 0 THEN 0
                 ELSE IF comms[i] = comms[j]
                 THEN total_edges * (IF Graph_has_edge(g, i, j) THEN 1 ELSE 0)
                      - k_out[i] * k_in[j]
                 ELSE 0
             pairs == num_vertices * num_vertices
         IN  Ratio(SumUpTo([k \in 0 .. (pairs - 1) |->
                               term(k \div num_vertices, k % num_vertices)],
                           pairs),
                   total_edges * total_edges)

\* _calculate_modularity: the sum of a_ij - k_out_i * k_in_j / m over the
\* ordered pairs (i, j), i = j included, of assigned vertices of one
\* community, divided by m; in exact arithmetic the fraction with numerator
\* sum of (m * a_ij - k_out_i * k_in_j) and denominator m * m
_calculate_modularity(g, comms, total_edges) ==
    IF total_edges = 0 THEN Ratio(0, 1)
    ELSE LET k_out == [i \in Vertices |-> Graph_get_vertex_out_degree(g, i)]
             k_in == [j \in Vertices |-> Graph_get_vertex_in_degree(g, j)]
             term(i, j) ==
                 IF get_community(comms, i) < 0 THEN 0
                 ELSE IF get_community(comms, j) < 0 THEN 0
                 ELSE IF comms[i] = comms[j]
                 THEN total_edges * (IF Graph_has_edge(g, i, j) THEN 1 ELSE 0)
                      - k_out[i] * k_in[j]
                 ELSE 0
             pairs == num_vertices * num_vertices
         IN  Ratio(SumUpTo([k \in 0 .. (pairs - 1) |->
                               term(k \div num_vertices, k % num_vertices)],
                           pairs),
                   total_edges * total_edges)

\* the elements of a set of integers in ascending order, which is the order
\* in which CPython iterates over a set of small non-negative integers
RECURSIVE Ascending(_)
Ascending(set) ==
    IF set = {} THEN <<>>
    ELSE CHOOSE ascending \in
             {<<least>> \o Ascending(set \ {least}) :
                 least \in {x \in set : \A y \in set : x <= y}} : TRUE

\* the for comm in neighbor_comms loop of louvain: the first community whose
\* modularity is larger than the best so far takes over
RECURSIVE louvain_best_comm(_, _, _, _, _, _)
louvain_best_comm(g, comms, v, candidates, best_comm, best_modularity) ==
    IF candidates = <<>> THEN best_comm
    ELSE CHOOSE best \in
             {IF RatioLess(best_modularity, mod)
              THEN louvain_best_comm(g, comms, v, Tail(candidates),
                                     Head(candidates), mod)
              ELSE louvain_best_comm(g, comms, v, Tail(candidates),
                                     best_comm, best_modularity) :
                 mod \in {_calculate_modularity(
                             g, [comms EXCEPT ![v] = Head(candidates)],
                             Graph_num_edges(g))}} : TRUE

\* the body of the for v in vertices loop of louvain: v is taken out of its
\* community (-1) and put into the best community of its neighbours, or back
louvain_visit(g, comms, v) ==
    LET current_comm == comms[v]
        neighbors == Graph_get_successors(g, v) \o Graph_get_predecessors(g, v)
        neighbor_comms == {comms[neighbors[i]] : i \in 1 .. Len(neighbors)}
        current_modularity ==
            _calculate_modularity(g, [comms EXCEPT ![v] = -1], Graph_num_edges(g))
    IN  IF neighbor_comms = {} THEN comms
        ELSE CHOOSE moved \in
                 {[comms EXCEPT ![v] =
                      louvain_best_comm(g, comms, v, candidates,
                                        current_comm, best_modularity)] :
                     candidates \in {Ascending(neighbor_comms)},
                     best_modularity \in {current_modularity}} : TRUE

\* modularity: 0.0 without edges
modularity(g, communities) ==
    IF Graph_num_edges(g) = 0 THEN Ratio(0, 1)
    ELSE _calculate_modularity(g, communities, Graph_num_edges(g))

\* bridging_ties that looks at the successors only
bridging_ties_of_successors(g, communities) ==
    IF DOMAIN communities = {} THEN EmptyDict
    ELSE [v \in Vertices |->
            LET neighbor_communities ==
                    {communities[x] :
                        x \in Elements(Graph_get_successors(g, v))
                              \cap DOMAIN communities}
                num_communities == Cardinality(Values(communities))
            IN  IF num_communities > 1
                THEN Ratio(Cardinality(neighbor_communities), num_communities)
                ELSE Ratio(0, 1)]

\* bridging_ties: the communities among the successors and predecessors of
\* each vertex over the number of communities, 0.0 for a single community
bridging_ties(g, communities) ==
    IF DOMAIN communities = {} THEN EmptyDict
    ELSE [v \in Vertices |->
            LET neighbor_communities ==
                    {communities[x] :
                        x \in (Elements(Graph_get_successors(g, v))
                               \cup Elements(Graph_get_predecessors(g, v)))
                              \cap DOMAIN communities}
                num_communities == Cardinality(Values(communities))
            IN  IF num_communities > 1
                THEN Ratio(Cardinality(neighbor_communities), num_communities)
                ELSE Ratio(0, 1)]

\* the sorted pair of two community ids: tuple(sorted([comm_u, comm_v]))
sorted_pair(comm_u, comm_v) ==
    IF comm_u <= comm_v THEN <<comm_u, comm_v>> ELSE <<comm_v, comm_u>>

\* the (u, i) of the nested loops for u in range(num_vertices), for v in
\* get_successors(u) whose two ends have a community
assigned_edges(g, communities) ==
    {e \in Vertices \X (1 .. num_vertices) :
        /\ e[2] <= Len(Graph_get_successors(g, e[1]))
        /\ e[1] \in DOMAIN communities
        /\ Graph_get_successors(g, e[1])[e[2]] \in DOMAIN communities}

\* inter_community_edges: the edges between two communities, counted under
\* the sorted pair of the two ids
inter_community_edges(g, communities) ==
    LET key(e) == sorted_pair(communities[e[1]],
                              communities[Graph_get_successors(g, e[1])[e[2]]])
        between == {e \in assigned_edges(g, communities) : key(e)[1] # key(e)[2]}
    IN  [k \in {key(e) : e \in between} |->
            Cardinality({e \in between : key(e) = k})]

\* community_statistics that counts an external edge for the community of
\* each of its two ends
community_statistics_both_ends(g, communities) ==
    LET comm_of(e) == <<communities[e[1]],
                        communities[Graph_get_successors(g, e[1])[e[2]]]>>
        counted == assigned_edges(g, communities)
    IN  [comm \in Values(communities) |->
            [size |-> Cardinality({v \in DOMAIN communities :
                                      communities[v] = comm}),
             internal_edges |->
                 Cardinality({e \in counted : comm_of(e) = <<comm, comm>>}),
             external_edges |->
                 Cardinality({e \in counted :
                                 /\ comm_of(e)[1] # comm_of(e)[2]
                                 /\ comm_of(e)[1] = comm})
                 + Cardinality({e \in counted :
                                   /\ comm_of(e)[1] # comm_of(e)[2]
                                   /\ comm_of(e)[2] = comm}),
             members |-> Ascending({v \in DOMAIN communities :
                                       communities[v] = comm})]]

\* community_statistics: size and members from communities.items(), an edge
\* counted for the community of its source, internal when its target is in
\* the same community and external otherwise
community_statistics(g, communities) ==
    LET comm_of(e) == <<communities[e[1]],
                        communities[Graph_get_successors(g, e[1])[e[2]]]>>
        counted == assigned_edges(g, communities)
    IN  [comm \in Values(communities) |->
            [size |-> Cardinality({v \in DOMAIN communities :
                                      communities[v] = comm}),
             internal_edges |->
                 Cardinality({e \in counted : comm_of(e) = <<comm, comm>>}),
             external_edges |->
                 Cardinality({e \in counted :
                                 /\ comm_of(e)[1] = comm
                                 /\ comm_of(e)[2] # comm}),
             members |-> Ascending({v \in DOMAIN communities :
                                       communities[v] = comm})]]

\* get_all_community_metrics: the communities of label propagation and
\* what is computed from them
get_all_community_metrics(g, best_communities) ==
    [communities |-> best_communities,
     method |-> "label_propagation",
     modularity |-> modularity(g, best_communities),
     num_communities |-> Cardinality(Values(best_communities)),
     bridging_ties |-> bridging_ties(g, best_communities),
     inter_community_edges |-> inter_community_edges(g, best_communities),
     community_statistics |-> community_statistics(g, best_communities)]

\* --------------------------------------- StructureMetrics: the neighbours
\* set(get_successors(v)).union(set(get_predecessors(v)))
neighbors_of(g, v) ==
    Elements(Graph_get_successors(g, v)) \cup Elements(Graph_get_predecessors(g, v))

\* the local coefficient of v: the ordered pairs of distinct neighbours
\* joined by an edge over k * (k - 1), 0.0 for less than two neighbours
local_coefficient(g, v) ==
    LET neighbors == neighbors_of(g, v)
        k == Cardinality(neighbors)
        connections ==
            Cardinality({p \in neighbors \X neighbors :
                            p[1] # p[2] /\ Graph_has_edge(g, p[1], p[2])})
        possible == k * (k - 1)
    IN  IF k < 2 THEN Ratio(0, 1)
        ELSE IF possible > 0 THEN Ratio(connections, possible) ELSE Ratio(0, 1)

\* the pairs neighbors[i], neighbors[j] with i < j of the vertex v
neighbor_pairs(g, v) ==
    {p \in neighbors_of(g, v) \X neighbors_of(g, v) : p[1] < p[2]}

\* _global_clustering_coefficient: every pair of neighbours of every vertex
\* is a triad, and a triangle when an edge joins the two in either direction
_global_clustering_coefficient(g) ==
    LET triads == SumUpTo([v \in Vertices |-> Cardinality(neighbor_pairs(g, v))],
                          num_vertices)
        triangles ==
            SumUpTo([v \in Vertices |->
                        Cardinality({p \in neighbor_pairs(g, v) :
                                        \/ Graph_has_edge(g, p[1], p[2])
                                        \/ Graph_has_edge(g, p[2], p[1])})],
                    num_vertices)
    IN  IF triads > 0 THEN Ratio(3 * triangles, triads) ELSE Ratio(0, 1)

\* clustering_coefficient: the local coefficients, their mean and the global
\* coefficient
clustering_coefficient(g) ==
    LET local_coefficients ==
            DictUpTo([v \in Vertices |-> local_coefficient(g, v)], num_vertices)
    IN  [local |-> local_coefficients,
         average |-> IF num_vertices > 0
                     THEN RatioDiv(ratio_sum_upto(local_coefficients, num_vertices),
                                   num_vertices)
                     ELSE Ratio(0, 1),
         global |-> _global_clustering_coefficient(g)]

\* ----------------------------------------- StructureMetrics: the distances
\* the BFS from source inside diameter, the loop of _bfs_distances
diameter_bfs(g, source) ==
    bfs_distances_loop(g,
        [distances |-> [v \in Vertices |-> IF v = source THEN 0 ELSE -1],
         queue |-> <<source>>])

\* the for dist in distances.values() loop: max_distance after it
largest_distance(distances, max_distance) ==
    LET candidates == {max_distance} \cup Values(distances)
    IN  CHOOSE largest \in candidates : \A dist \in candidates : dist <= largest

\* the for source in range(self.num_vertices) loop, sources 0 .. n-1 done
RECURSIVE diameter_sources(_, _)
diameter_sources(g, n) ==
    IF n = 0 THEN 0
    ELSE largest_distance(diameter_bfs(g, n - 1), diameter_sources(g, n - 1))

\* diameter that returns 0 when no vertex reaches another
diameter_zero_when_disconnected(g) ==
    IF num_vertices <= 1 THEN 0 ELSE diameter_sources(g, num_vertices)

\* diameter: 0 for at most one vertex, -1 when max_distance stayed 0
diameter(g) ==
    IF num_vertices <= 1 THEN 0
    ELSE LET max_distance == diameter_sources(g, num_vertices)
         IN  IF max_distance > 0 THEN max_distance ELSE -1

\* ---------------------------------------------------- GraphMetricsAnalyzer
\* scores.items(): the (vertex, score) pairs in the order of the keys
RECURSIVE items_upto(_, _)
items_upto(scores, n) ==
    IF n = 0 THEN <<>>
    ELSE Append(items_upto(scores, n - 1), <<n - 1, scores[n - 1]>>)

items(scores) == items_upto(scores, Cardinality(DOMAIN scores))

\* the same, but before the items of an equal score
insert_before_equal_score(sorted_items, item) ==
    CHOOSE inserted \in
        {LET not_larger == {i \in 1 .. Len(lst) : ~RatioLess(x[2], lst[i][2])}
              at == IF not_larger = {} THEN Len(lst) + 1
                    ELSE CHOOSE i \in not_larger : \A j \in not_larger : i <= j
          IN  SubSeq(lst, 1, at - 1) \o <<x>> \o SubSeq(lst, at, Len(lst)) :
             lst \in {sorted_items}, x \in {item}} : TRUE

\* one item put into a list sorted by descending score, after the items of
\* an equal score
insert_by_score(sorted_items, item) ==
    CHOOSE inserted \in
        {LET smaller == {i \in 1 .. Len(lst) : RatioLess(lst[i][2], x[2])}
              at == IF smaller = {} THEN Len(lst) + 1
                    ELSE CHOOSE i \in smaller : \A j \in smaller : i <= j
          IN  SubSeq(lst, 1, at - 1) \o <<x>> \o SubSeq(lst, at, Len(lst)) :
             lst \in {sorted_items}, x \in {item}} : TRUE

\* sorted(items, key=lambda x: x[1], reverse=True): a stable sort, so items
\* of an equal score keep the order they had
RECURSIVE sorted_by_score(_)
sorted_by_score(list) ==
    IF list = <<>> THEN <<>>
    ELSE insert_by_score(sorted_by_score(SubSeq(list, 1, Len(list) - 1)),
                         list[Len(list)])

\* lst[:n]: the first n items, all but the last -n for a negative n
Slice(lst, n) ==
    CHOOSE sliced \in
        {IF n >= 0 THEN SubSeq(l, 1, IF n < Len(l) THEN n ELSE Len(l))
         ELSE SubSeq(l, 1, IF Len(l) + n > 0 THEN Len(l) + n ELSE 0) :
            l \in {lst}} : TRUE

\* self.graph.get_vertex_label(vertex) or f"V{vertex}"
label_or_index(g, vertex) ==
    LET label == Graph_get_vertex_label(g, vertex)
    IN  IF label = None \/ label = "" THEN "V" \o ToString(vertex) ELSE label

\* the (vertex, label) tuples get_community_members builds from the
\* communities: the vertices of community_id in the order of the dict
community_members(g, communities, community_id) ==
    CHOOSE result \in
        {[i \in 1 .. Len(members) |->
             <<members[i], label_or_index(g, members[i])>>] @@ <<>> :
            members \in {Ascending({v \in DOMAIN communities :
                                       communities[v] = community_id})}} : TRUE

\* the (vertex, score, label) tuples of the first n sorted items
with_labels(g, sorted_items, n) ==
    CHOOSE result \in
        {[i \in 1 .. Len(top) |->
             <<top[i][1], top[i][2], label_or_index(g, top[i][1])>>] @@ <<>> :
            top \in {Slice(sorted_items, n)}} : TRUE

\* get_top_central_nodes that ranks by pagerank when it does not know the
\* metric
top_central_nodes_or_pagerank(g, centralities, metric, n) ==
    Returns(with_labels(g,
        sorted_by_score(items(IF metric \in DOMAIN centralities
                              THEN centralities[metric]
                              ELSE centralities.pagerank)), n))

\* get_top_central_nodes once it has the centralities
top_central_nodes(g, centralities, metric, n) ==
    IF metric \notin DOMAIN centralities
    THEN Raises(ValueError(metric))
    ELSE Returns(with_labels(g, sorted_by_score(items(centralities[metric])), n))

get_top_central_nodes(g, metric, n) ==
    top_central_nodes(g, get_all_centralities(g), metric, n)

\* n: int = 10
DefaultN == 10

_rank_vertices(g, scores, n) == with_labels(g, sorted_by_score(items(scores)), n)

_calculate_rankings(g, result) ==
    [top_pagerank |-> _rank_vertices(g, result.centrality.pagerank, DefaultN),
     top_betweenness |-> _rank_vertices(g, result.centrality.betweenness, DefaultN),
     top_degree |-> _rank_vertices(g, result.centrality.degree_total, DefaultN),
     top_closeness |-> _rank_vertices(g, result.centrality.closeness, DefaultN),
     top_bridging |-> _rank_vertices(g, result.community.bridging_ties, DefaultN)]

\* _get_basic_info
_get_basic_info(g) ==
    [num_vertices |-> num_vertices,
     num_edges |-> Graph_num_edges(g),
     density |-> network_density(g)]

\* _get_metadata without the timestamp
_get_metadata(g) ==
    [graph_type |-> IF g = "list" THEN "AdjacencyListGraph"
                    ELSE "AdjacencyMatrixGraph"]

\* analyze_all before the communities are detected
analyze_all_centrality_structure(g) ==
    [metadata |-> _get_metadata(g),
     basic_info |-> _get_basic_info(g),
     centrality |-> get_all_centralities(g),
     structure |-> get_all_structure_metrics(g),
     community |-> EmptyDict]

\* analyze_all from the detected communities on
analyze_all_community_rankings(g, result, best_communities) ==
    CHOOSE results_dict \in
        {[metadata |-> with_community.metadata,
          basic_info |-> with_community.basic_info,
          centrality |-> with_community.centrality,
          structure |-> with_community.structure,
          community |-> with_community.community,
          rankings |-> _calculate_rankings(g, with_community)] :
            with_community \in
                {[result EXCEPT
                     !.community =
                         get_all_community_metrics(g, best_communities)]}} : TRUE

\* --------------------------------------------------------- an engine call
NoParams ==
    [max_iter |-> DefaultMaxIter, tol |-> DefaultTol,
     metric |-> None, n |-> 0, community_id |-> 0, communities |-> EmptyDict]

NoResults == <<>>

\* no engine method has been called
NoEngineCall ==
    /\ method = None
    /\ self_graph = None
    /\ params = NoParams
    /\ pc = "idle"
    /\ iteration = 0
    /\ changed = FALSE
    /\ unvisited = {}
    /\ labels = <<>>
    /\ centrality = <<>>
    /\ ranking = <<>>
    /\ results = NoResults
    /\ engine_raised = NoException

\* ------------------------------------------------------------------ calls
\* Both graphs are constructed with the same num_vertices >= 0.
Init ==
    /\ num_vertices \in 0 .. MaxVertices
    /\ list_adjacency_list = [x \in Vertices |-> <<>>]
    /\ list_edge_weights = [p \in {} |-> 0]
    /\ list_num_edges = 0
    /\ list_vertex_weights = [x \in Vertices |-> 0]
    /\ list_vertex_labels = [x \in Vertices |-> None]
    /\ matrix_adjacency_matrix = [p \in Vertices \X Vertices |-> FALSE]
    /\ matrix_edge_weights = [p \in Vertices \X Vertices |-> 0]
    /\ matrix_num_edges = 0
    /\ matrix_vertex_weights = [x \in Vertices |-> 0]
    /\ matrix_vertex_labels = [x \in Vertices |-> None]
    /\ call = [op |-> "__init__", args |-> <<>>]
    /\ list_raised = NoException
    /\ matrix_raised = NoException
    /\ calls = 0
    /\ NoEngineCall

\* One more call of the driving sequence, applied to both graphs.
Called(op, args) ==
    /\ calls < MaxCalls
    /\ calls' = calls + 1
    /\ call' = [op |-> op, args |-> args]
    /\ UNCHANGED <<num_vertices, engineVars>>

AddEdge(u, v) ==
    /\ Called("add_edge", <<u, v>>)
    /\ List_add_edge(u, v)
    /\ Matrix_add_edge(u, v)

RemoveEdge(u, v) ==
    /\ Called("remove_edge", <<u, v>>)
    /\ List_remove_edge(u, v)
    /\ Matrix_remove_edge(u, v)

SetEdgeWeight(u, v, weight) ==
    /\ Called("set_edge_weight", <<u, v, weight>>)
    /\ List_set_edge_weight(u, v, weight)
    /\ Matrix_set_edge_weight(u, v, weight)

SetVertexWeight(v, weight) ==
    /\ Called("set_vertex_weight", <<v, weight>>)
    /\ List_set_vertex_weight(v, weight)
    /\ Matrix_set_vertex_weight(v, weight)

SetVertexLabel(v, label) ==
    /\ Called("set_vertex_label", <<v, label>>)
    /\ List_set_vertex_label(v, label)
    /\ Matrix_set_vertex_label(v, label)

Next ==
    \/ \E u, v \in VertexArgs : AddEdge(u, v)
    \/ \E u, v \in VertexArgs : RemoveEdge(u, v)
    \/ \E u, v \in VertexArgs : \E weight \in WeightArgs : SetEdgeWeight(u, v, weight)
    \/ \E v \in VertexArgs : \E weight \in VertexWeightArgs : SetVertexWeight(v, weight)
    \/ \E v \in VertexArgs : \E label \in LabelArgs : SetVertexLabel(v, label)

Spec == Init /\ [][Next]_vars

\* The same calls, followed for what the degree reads and the density return
\* on the graphs that they build.
DegreeSpec == Init /\ [][Next]_vars

\* The same calls, followed for what is_connected, is_empty_graph and
\* is_complete_graph return on the graphs that they build.
ShapeSpec == Init /\ [][Next]_vars

\* The two graphs after add_edge(0, 1) and set_edge_weight(0, 1, weight) on
\* new graphs of two vertices or more; the calls of the sequence that
\* follows are counted from here.
WeightedInit ==
    \E weight \in WeightArgs :
        /\ num_vertices \in 2 .. MaxVertices
        /\ list_adjacency_list = [x \in Vertices |-> IF x = 0 THEN <<1>> ELSE <<>>]
        /\ list_edge_weights = [p \in {<<0, 1>>} |-> weight]
        /\ list_num_edges = 1
        /\ list_vertex_weights = [x \in Vertices |-> 0]
        /\ list_vertex_labels = [x \in Vertices |-> None]
        /\ matrix_adjacency_matrix =
               [p \in Vertices \X Vertices |-> p = <<0, 1>>]
        /\ matrix_edge_weights =
               [p \in Vertices \X Vertices |-> IF p = <<0, 1>> THEN weight ELSE 0]
        /\ matrix_num_edges = 1
        /\ matrix_vertex_weights = [x \in Vertices |-> 0]
        /\ matrix_vertex_labels = [x \in Vertices |-> None]
        /\ call = [op |-> "set_edge_weight", args |-> <<0, 1, weight>>]
        /\ list_raised = NoException
        /\ matrix_raised = NoException
        /\ calls = 0
        /\ NoEngineCall

WeightSpec == WeightedInit /\ [][Next]_vars

\* ================================================================ engines
\* The graphs an engine is constructed on: every graph of up to MaxVertices
\* vertices built by up to MaxEdges add_edge calls, and the graphs of the
\* tests of the engines.

NonLoopPairs(n) == {p \in (0 .. n - 1) \X (0 .. n - 1) : p[1] # p[2]}

EdgeSequences(n, k) ==
    UNION {{seq \in [1 .. m -> NonLoopPairs(n)] :
                \A i, j \in 1 .. m : i < j => seq[i] # seq[j]} : m \in 0 .. k}

\* two bidirectional triangles 0,1,2 and 3,4,5 joined by 2 -> 3, in the
\* order of the add_edge calls of test_strong_communities
TwoTrianglesGraph ==
    [n |-> 6,
     edges |-> << <<0, 1>>, <<1, 0>>, <<1, 2>>, <<2, 1>>, <<0, 2>>, <<2, 0>>,
                  <<3, 4>>, <<4, 3>>, <<4, 5>>, <<5, 4>>, <<3, 5>>, <<5, 3>>,
                  <<2, 3>> >>,
     labels |-> <<>>]

\* the graphs of test_simple_star_graph, test_bidirectional_graph,
\* test_triangle_graph and test_two_communities
StarGraph ==
    [n |-> 4, edges |-> << <<0, 1>>, <<0, 2>>, <<0, 3>> >>,
     labels |-> << <<0, "Center">>, <<1, "Node1">>, <<2, "Node2">>,
                   <<3, "Node3">> >>]

BidirectionalGraph ==
    [n |-> 3, edges |-> << <<0, 1>>, <<1, 0>>, <<0, 2>>, <<2, 0>> >>,
     labels |-> << <<0, "Center">>, <<1, "Node1">>, <<2, "Node2">> >>]

TriangleGraph ==
    [n |-> 3, edges |-> << <<0, 1>>, <<1, 2>>, <<2, 0>> >>, labels |-> <<>>]

TwoCommunitiesGraph ==
    [n |-> 4,
     edges |-> << <<0, 1>>, <<1, 0>>, <<1, 2>>, <<2, 3>>, <<3, 2>> >>,
     labels |-> <<>>]

\* a graph one vertex of which was given a label with set_vertex_label
LabelledGraph ==
    [n |-> 2, edges |-> << <<0, 1>> >>, labels |-> << <<1, "a">> >>]

TestGraphs ==
    {TwoTrianglesGraph, StarGraph, BidirectionalGraph, TriangleGraph,
     TwoCommunitiesGraph, LabelledGraph}

BuiltGraphs ==
    UNION {{[n |-> n, edges |-> seq, labels |-> <<>>] :
                seq \in EdgeSequences(n, MaxEdges)} : n \in 0 .. MaxVertices}
    \cup TestGraphs

\* the labels after set_vertex_label(v, label) for each <<v, label>> in turn
RECURSIVE SetLabels(_, _)
SetLabels(vertex_labels, labels_set) ==
    IF labels_set = <<>> THEN vertex_labels
    ELSE SetLabels([vertex_labels EXCEPT
                       ![Head(labels_set)[1]] = Head(labels_set)[2]],
                   Tail(labels_set))

\* the successor lists after add_edge(u, v) for each <<u, v>> of edges in turn
RECURSIVE AddedEdges(_, _)
AddedEdges(adjacency_list, edges) ==
    IF edges = <<>> THEN adjacency_list
    ELSE LET u == Head(edges)[1]
             v == Head(edges)[2]
         IN  AddedEdges(IF In(v, adjacency_list[u]) THEN adjacency_list
                        ELSE [adjacency_list EXCEPT ![u] = Append(@, v)],
                        Tail(edges))

\* Both graphs after construction with n vertices, the add_edge calls of
\* edges and the set_vertex_label calls of labels; no engine method has been
\* called.
Built(built) ==
        /\ num_vertices = built.n
        /\ list_adjacency_list =
               AddedEdges([x \in 0 .. built.n - 1 |-> <<>>], built.edges)
        /\ list_edge_weights = [p \in Elements(built.edges) |-> 0]
        /\ list_num_edges = Cardinality(Elements(built.edges))
        /\ list_vertex_weights = [x \in 0 .. built.n - 1 |-> 0]
        /\ list_vertex_labels =
               SetLabels([x \in 0 .. built.n - 1 |-> None], built.labels)
        /\ matrix_adjacency_matrix =
               [p \in (0 .. built.n - 1) \X (0 .. built.n - 1) |->
                   p \in Elements(built.edges)]
        /\ matrix_edge_weights =
               [p \in (0 .. built.n - 1) \X (0 .. built.n - 1) |-> 0]
        /\ matrix_num_edges = Cardinality(Elements(built.edges))
        /\ matrix_vertex_weights = [x \in 0 .. built.n - 1 |-> 0]
        /\ matrix_vertex_labels =
               SetLabels([x \in 0 .. built.n - 1 |-> None], built.labels)
        /\ call = [op |-> "__init__", args |-> <<>>]
        /\ list_raised = NoException
        /\ matrix_raised = NoException
        /\ calls = Len(built.edges) + Len(built.labels)
        /\ NoEngineCall

MetricsInit == \E built \in BuiltGraphs : Built(built)

\* a call that writes the fallback labels into the graph
EngineCall_labelling(m, g, p) ==
    /\ pc = "idle"
    /\ method' = m
    /\ self_graph' = g
    /\ params' = p
    /\ list_vertex_labels' = [v \in Vertices |-> label_or_index("list", v)]
    /\ matrix_vertex_labels' = [v \in Vertices |-> label_or_index("matrix", v)]
    /\ UNCHANGED <<num_vertices, list_adjacency_list, list_edge_weights,
                   list_num_edges, list_vertex_weights,
                   matrix_adjacency_matrix, matrix_edge_weights,
                   matrix_num_edges, matrix_vertex_weights,
                   call, list_raised, matrix_raised, calls>>

\* an engine method is called with its arguments; the engine reads the graph
EngineCall(m, g, p) ==
    /\ pc = "idle"
    /\ method' = m
    /\ self_graph' = g
    /\ params' = p
    /\ UNCHANGED <<num_vertices, listVars, matrixVars,
                   call, list_raised, matrix_raised, calls>>

\* a step inside the method that is running
EngineStep(m) ==
    /\ pc = "loop"
    /\ method = m
    /\ UNCHANGED <<method, self_graph, params>>
    /\ UNCHANGED <<num_vertices, listVars, matrixVars,
                   call, list_raised, matrix_raised, calls>>

\* The sweeps detect_communities_label_propagation() is followed for when
\* it is called with its default max_iter: all of them on the graph of
\* test_strong_communities.
default_sweeps ==
    IF num_vertices = TwoTrianglesGraph.n THEN DefaultMaxIter
    ELSE IF DefaultMaxIter < MaxIter THEN DefaultMaxIter ELSE MaxIter

\* what a method that has the communities does with them
communities_detected(m, g, result, best_communities) ==
    \E communities \in {best_communities} :
        /\ labels' = communities
        /\ pc' = "returned"
        /\ results' = IF m = "analyze_all"
                      THEN analyze_all_community_rankings(g, result, communities)
                      ELSE IF m = "analyze_community_only"
                      THEN get_all_community_metrics(g, communities)
                      ELSE results

\* detect_communities_label_propagation up to the first sweep: the empty
\* dict for no vertices, the renumbered initial labels when range(max_iter)
\* is empty, else the first shuffled list
label_propagation_begin(m, g, max_iter) ==
    /\ IF num_vertices = 0
       THEN /\ communities_detected(m, g, analyze_all_centrality_structure(g),
                                    EmptyDict)
            /\ UNCHANGED <<iteration, changed, unvisited>>
       ELSE IF max_iter <= 0
       THEN /\ communities_detected(m, g, analyze_all_centrality_structure(g),
                                    _renumber_communities(own_community))
            /\ UNCHANGED <<iteration, changed, unvisited>>
       ELSE /\ labels' = own_community
            /\ pc' = "loop"
            /\ iteration' = 1
            /\ changed' = FALSE
            /\ unvisited' = Vertices
            /\ results' = IF m = "analyze_all"
                          THEN analyze_all_centrality_structure(g)
                          ELSE results
    /\ UNCHANGED <<centrality, ranking, engine_raised>>

detect_communities_label_propagation(g, max_iter) ==
    /\ EngineCall("detect_communities_label_propagation", g,
                  [NoParams EXCEPT !.max_iter = max_iter])
    /\ label_propagation_begin("detect_communities_label_propagation", g, max_iter)

\* analyze_all: the centralities and the structure metrics, then the
\* communities of detect_communities_label_propagation()
analyze_all(g) ==
    /\ EngineCall("analyze_all", g, [NoParams EXCEPT !.max_iter = default_sweeps])
    /\ label_propagation_begin("analyze_all", g, default_sweeps)

\* analyze_community_only returns get_all_community_metrics(), which starts
\* with detect_communities_label_propagation()
analyze_community_only(g) ==
    /\ EngineCall("analyze_community_only", g,
                  [NoParams EXCEPT !.max_iter = default_sweeps])
    /\ label_propagation_begin("analyze_community_only", g, default_sweeps)

\* one vertex of the shuffled list is visited; after the last one the sweep
\* ends: the loop breaks when nothing changed, stops when range(max_iter)
\* is exhausted, and shuffles again otherwise
label_propagation_visit_next(m, v) ==
    /\ EngineStep(m)
    /\ v \in unvisited
    /\ \E visited \in {label_propagation_visit(self_graph, labels, v)} :
           LET now_changed == changed \/ visited # labels
           IN  IF unvisited # {v}
               THEN /\ labels' = visited
                    /\ changed' = now_changed
                    /\ unvisited' = unvisited \ {v}
                    /\ UNCHANGED <<pc, iteration, results>>
               ELSE IF ~now_changed \/ iteration >= params.max_iter
               THEN /\ communities_detected(m, self_graph, results,
                                            _renumber_communities(visited))
                    /\ changed' = now_changed
                    /\ unvisited' = {}
                    /\ UNCHANGED iteration
               ELSE /\ labels' = visited
                    /\ changed' = FALSE
                    /\ unvisited' = Vertices
                    /\ iteration' = iteration + 1
                    /\ UNCHANGED <<pc, results>>
    /\ UNCHANGED <<centrality, ranking, engine_raised>>

\* what a method that has the communities of louvain does with them
louvain_detected(m, g, communities, community_id) ==
    \E detected \in {communities} :
        /\ labels' = detected
        /\ pc' = "returned"
        /\ ranking' = IF m = "get_community_members"
                      THEN community_members(g, detected, community_id)
                      ELSE ranking

\* detect_communities_louvain up to the first sweep: the empty dict for no
\* vertices, the initial communities as they are for no edges, else the
\* while improved and iteration < max_iter loop
louvain_begin(m, g, max_iter, community_id) ==
    /\ IF num_vertices = 0
       THEN /\ louvain_detected(m, g, EmptyDict, community_id)
            /\ UNCHANGED <<iteration, changed, unvisited>>
       ELSE IF Graph_num_edges(g) = 0
       THEN /\ louvain_detected(m, g, own_community, community_id)
            /\ UNCHANGED <<iteration, changed, unvisited>>
       ELSE IF ~(0 < max_iter)
       THEN /\ louvain_detected(m, g, _renumber_communities(own_community),
                                community_id)
            /\ UNCHANGED <<iteration, changed, unvisited>>
       ELSE /\ labels' = own_community
            /\ pc' = "loop"
            /\ iteration' = 1
            /\ changed' = FALSE
            /\ unvisited' = Vertices
            /\ UNCHANGED ranking
    /\ UNCHANGED <<centrality, results, engine_raised>>

detect_communities_louvain(g, max_iter) ==
    /\ EngineCall("detect_communities_louvain", g,
                  [NoParams EXCEPT !.max_iter = max_iter])
    /\ louvain_begin("detect_communities_louvain", g, max_iter, 0)

\* get_community_members(community_id) on an analyzer, fresh or after its
\* analyze_community_only(): detect_communities_louvain() with the default
\* max_iter, then the members of community_id with their labels
get_community_members(g, community_id) ==
    /\ \/ pc = "idle"
       \/ pc = "returned" /\ method = "analyze_community_only" /\ self_graph = g
    /\ method' = "get_community_members"
    /\ self_graph' = g
    /\ params' = [NoParams EXCEPT !.community_id = community_id]
    /\ UNCHANGED <<num_vertices, listVars, matrixVars,
                   call, list_raised, matrix_raised, calls>>
    /\ louvain_begin("get_community_members", g, DefaultMaxIter, community_id)

\* one vertex of the shuffled list is visited; after the last one the while
\* test decides between another sweep and the renumbered result
louvain_visit_next(m, v) ==
    /\ EngineStep(m)
    /\ v \in unvisited
    /\ \E visited \in {louvain_visit(self_graph, labels, v)} :
           LET improved == changed \/ visited[v] # labels[v]
           IN  IF unvisited # {v}
               THEN /\ labels' = visited
                    /\ changed' = improved
                    /\ unvisited' = unvisited \ {v}
                    /\ UNCHANGED <<pc, iteration, ranking>>
               ELSE IF improved /\ iteration < params.max_iter
               THEN /\ labels' = visited
                    /\ changed' = FALSE
                    /\ unvisited' = Vertices
                    /\ iteration' = iteration + 1
                    /\ UNCHANGED <<pc, ranking>>
               ELSE /\ louvain_detected(m, self_graph,
                                        _renumber_communities(visited),
                                        params.community_id)
                    /\ changed' = improved
                    /\ unvisited' = {}
                    /\ UNCHANGED iteration
    /\ UNCHANGED <<centrality, results, engine_raised>>

\* max_iter arguments of the power iterations, tol arguments, metric names
\* (the seven of get_all_centralities and two others) and n arguments
PowerIterArgs == {0, 1, MaxIter}
TolArgs == {DefaultTol, Ratio(1, 10)}
MetricArgs ==
    {"degree_in", "degree_out", "degree_total", "betweenness", "closeness",
     "pagerank", "eigenvector", "degree", "top_pagerank"}
NArgs == {-1, 0, 2, DefaultN}

\* pagerank and eigenvector_centrality up to the first pass: the empty dict
\* for no vertices, the uniform values when range(max_iter) is empty
power_iteration_begin(max_iter) ==
    /\ IF num_vertices = 0
       THEN /\ centrality' = EmptyDict
            /\ pc' = "returned"
       ELSE IF max_iter <= 0
       THEN /\ centrality' = uniform
            /\ pc' = "returned"
       ELSE /\ centrality' = uniform
            /\ pc' = "loop"
    /\ iteration' = 0
    /\ UNCHANGED <<changed, unvisited, labels, ranking, results, engine_raised>>

Call_pagerank(g, max_iter, tol) ==
    /\ EngineCall("pagerank", g,
                  [NoParams EXCEPT !.max_iter = max_iter, !.tol = tol])
    /\ power_iteration_begin(max_iter)

Call_eigenvector_centrality(g, max_iter, tol) ==
    /\ EngineCall("eigenvector_centrality", g,
                  [NoParams EXCEPT !.max_iter = max_iter, !.tol = tol])
    /\ power_iteration_begin(max_iter)

\* the loop without the convergence test
power_iteration_next_to_the_cap(m, new) ==
    /\ EngineStep(m)
    /\ centrality' = new
    /\ iteration' = iteration + 1
    /\ pc' = IF iteration + 1 >= params.max_iter THEN "returned" ELSE "loop"
    /\ UNCHANGED <<changed, unvisited, labels, ranking, results, engine_raised>>

\* one pass of for _ in range(max_iter): the loop breaks when max_diff is
\* below tol and ends when range(max_iter) is exhausted
power_iteration_next(m, new) ==
    /\ EngineStep(m)
    /\ \E new_centrality \in {new} :
           /\ centrality' = new_centrality
           /\ pc' = IF RatioLess(max_diff_of(new_centrality, centrality),
                                 params.tol)
                       \/ iteration + 1 >= params.max_iter
                    THEN "returned" ELSE "loop"
    /\ iteration' = iteration + 1
    /\ UNCHANGED <<changed, unvisited, labels, ranking, results, engine_raised>>

pagerank_next ==
    power_iteration_next("pagerank", pagerank_iteration(self_graph, centrality))

eigenvector_centrality_next ==
    power_iteration_next("eigenvector_centrality",
                         eigenvector_iteration(self_graph, centrality))

\* get_top_central_nodes(metric, n) returns the ranking or raises
Call_get_top_central_nodes(g) ==
    LET centralities == get_all_centralities(g)
    IN  \E metric \in MetricArgs : \E n \in NArgs :
            /\ EngineCall("get_top_central_nodes", g,
                          [NoParams EXCEPT !.metric = metric, !.n = n])
            /\ LET result == top_central_nodes(g, centralities, metric, n)
               IN  /\ engine_raised' = result.raised
                   /\ ranking' = IF result.raised = NoException THEN result.value
                                 ELSE ranking
            /\ pc' = "returned"
            /\ UNCHANGED <<iteration, changed, unvisited, labels, centrality,
                           results>>

\* analyze_centrality_only returns get_all_centralities()
analyze_centrality_only(g) ==
    /\ EngineCall("analyze_centrality_only", g, NoParams)
    /\ results' = get_all_centralities(g)
    /\ pc' = "returned"
    /\ UNCHANGED <<iteration, changed, unvisited, labels, centrality, ranking,
                   engine_raised>>

\* max_iter arguments: no iteration or up to MaxIter iterations on every
\* graph, and the default on the graph of test_strong_communities
MaxIterArgs ==
    {0, MaxIter}
    \cup (IF num_vertices = TwoTrianglesGraph.n THEN {DefaultMaxIter} ELSE {})

\* a method is called on an engine
MetricsCall ==
    \/ \E g \in Graphs : \E max_iter \in MaxIterArgs :
           detect_communities_label_propagation(g, max_iter)
    \/ \E g \in Graphs : \E max_iter \in MaxIterArgs :
           detect_communities_louvain(g, max_iter)
    \/ \E g \in Graphs : \E max_iter \in PowerIterArgs : \E tol \in TolArgs :
           Call_pagerank(g, max_iter, tol)
    \/ \E g \in Graphs : \E max_iter \in PowerIterArgs : \E tol \in TolArgs :
           Call_eigenvector_centrality(g, max_iter, tol)
    \/ \E g \in Graphs : Call_get_top_central_nodes(g)
    \/ \E g \in Graphs : analyze_centrality_only(g)
    \/ \E g \in Graphs : analyze_all(g)

\* the method that was called runs: one visited vertex or one pass
MetricsRun ==
    \/ \E v \in Vertices :
           label_propagation_visit_next("detect_communities_label_propagation", v)
    \/ \E v \in Vertices : label_propagation_visit_next("analyze_all", v)
    \/ \E v \in Vertices : louvain_visit_next("detect_communities_louvain", v)
    \/ pagerank_next
    \/ eigenvector_centrality_next

MetricsNext == MetricsCall \/ MetricsRun

MetricsSpec == MetricsInit /\ [][MetricsNext]_vars

\* A method that was called keeps running until it returns: the interpreter
\* executes the loop of the call without waiting for anything.
MetricsFairSpec == MetricsSpec /\ WF_vars(MetricsRun)

\* ------------------------------------------- methods that read the graph
\* A method without a loop over sweeps or passes returns in one step.
Returned(value) ==
    /\ results' = value
    /\ pc' = "returned"
    /\ UNCHANGED <<iteration, changed, unvisited, labels, centrality, ranking,
                   engine_raised>>

Call_diameter(g) ==
    /\ EngineCall("diameter", g, NoParams)
    /\ Returned(diameter(g))

Call_clustering_coefficient(g) ==
    /\ EngineCall("clustering_coefficient", g, NoParams)
    /\ Returned(clustering_coefficient(g))

Call_betweenness_centrality(g) ==
    /\ EngineCall("betweenness_centrality", g, NoParams)
    /\ Returned(betweenness_centrality(g))

\* a method of StructureMetrics, or betweenness_centrality, is called
StructureCall ==
    \/ \E g \in Graphs : Call_diameter(g)
    \/ \E g \in Graphs : Call_clustering_coefficient(g)
    \/ \E g \in Graphs : Call_betweenness_centrality(g)

\* the pairs of a set of edges in ascending order
RECURSIVE AscendingPairs(_)
AscendingPairs(pairs) ==
    IF pairs = {} THEN <<>>
    ELSE LET first == CHOOSE p \in pairs :
                          \A q \in pairs :
                              p[1] < q[1] \/ (p[1] = q[1] /\ p[2] <= q[2])
         IN  <<first>> \o AscendingPairs(pairs \ {first})

\* every graph of up to MaxShapeVertices vertices built by up to
\* MaxShapeEdges add_edge calls that add its edges in ascending order
ShapedGraphs ==
    UNION {{[n |-> n, edges |-> AscendingPairs(pairs), labels |-> <<>>] :
                pairs \in {e \in SUBSET NonLoopPairs(n) :
                               Cardinality(e) <= MaxShapeEdges}} :
           n \in 0 .. MaxShapeVertices}

StructureInit == \E built \in ShapedGraphs \cup TestGraphs : Built(built)

StructureSpec == StructureInit /\ [][StructureCall]_vars

\* communities arguments: on a graph of up to MaxVertices vertices every
\* dict that gives each vertex an id of 0 .. V-1; on a larger graph each
\* vertex apart, all vertices together, and the lower and the upper half of
\* the vertices (the manual_communities of test_manual_communities)
CommunityArgs ==
    IF num_vertices <= MaxVertices THEN [Vertices -> Vertices]
    ELSE {own_community,
          [v \in Vertices |-> 0],
          [v \in Vertices |-> IF 2 * v < num_vertices THEN 0 ELSE 1]}

Call_modularity(g, communities) ==
    /\ EngineCall("modularity", g, [NoParams EXCEPT !.communities = communities])
    /\ Returned(modularity(g, communities))

Call_bridging_ties(g, communities) ==
    /\ EngineCall("bridging_ties", g,
                  [NoParams EXCEPT !.communities = communities])
    /\ Returned(bridging_ties(g, communities))

Call_inter_community_edges(g, communities) ==
    /\ EngineCall("inter_community_edges", g,
                  [NoParams EXCEPT !.communities = communities])
    /\ Returned(inter_community_edges(g, communities))

Call_community_statistics(g, communities) ==
    /\ EngineCall("community_statistics", g,
                  [NoParams EXCEPT !.communities = communities])
    /\ Returned(community_statistics(g, communities))

\* a method of CommunityMetrics is called with a communities dict
PartitionCall ==
    \/ \E g \in Graphs : \E communities \in CommunityArgs :
           Call_modularity(g, communities)
    \/ \E g \in Graphs : \E communities \in CommunityArgs :
           Call_bridging_ties(g, communities)
    \/ \E g \in Graphs : \E communities \in CommunityArgs :
           Call_inter_community_edges(g, communities)
    \/ \E g \in Graphs : \E communities \in CommunityArgs :
           Call_community_statistics(g, communities)

PartitionSpec == MetricsInit /\ [][PartitionCall]_vars

\* ------------------------------------------------- louvain on shaped graphs
LouvainCall ==
    \E g \in Graphs : \E max_iter \in MaxIterArgs :
        detect_communities_louvain(g, max_iter)

LouvainRun ==
    \E v \in Vertices : louvain_visit_next("detect_communities_louvain", v)

LouvainSpec == StructureInit /\ [][LouvainCall \/ LouvainRun]_vars

\* ------------------------- the communities an analyzer reports and lists
\* community_id arguments: the ids a detection can give and one more
CommunityIdArgs == 0 .. num_vertices

MembersCall ==
    \/ \E g \in Graphs : analyze_community_only(g)
    \/ \E g \in Graphs : \E community_id \in CommunityIdArgs :
           get_community_members(g, community_id)

MembersRun ==
    \/ \E v \in Vertices :
           label_propagation_visit_next("analyze_community_only", v)
    \/ \E v \in Vertices : louvain_visit_next("get_community_members", v)

MembersSpec == MetricsInit /\ [][MembersCall \/ MembersRun]_vars

\* ================================================================ properties
\* What a caller can observe of each graph through its public reads.
VertexPairs == Vertices \X Vertices

List_EdgeSet == {p \in VertexPairs : List_has_edge(p[1], p[2]).value}
Matrix_EdgeSet == {p \in VertexPairs : Matrix_has_edge(p[1], p[2]).value}

List_Weights == [p \in List_EdgeSet |-> List_get_edge_weight(p[1], p[2])]
Matrix_Weights == [p \in Matrix_EdgeSet |-> Matrix_get_edge_weight(p[1], p[2])]

\* edge set, edge_count and edge weights of both graphs
EdgeState == <<List_EdgeSet, List_get_edge_count, List_Weights,
               Matrix_EdgeSet, Matrix_get_edge_count, Matrix_Weights>>

graphVars == <<listVars, matrixVars>>

InRange(x) == x \in Vertices
NeitherRaised == list_raised = NoException /\ matrix_raised = NoException
BothRaisedClass(cls) == list_raised.cls = cls /\ matrix_raised.cls = cls

\* C1: in both representations get_edge_count() equals the number of ordered
\* pairs (u,v), u # v, for which has_edge(u,v) is true, after any sequence of
\* valid or failing add_edge / remove_edge calls.
C1_EdgeCountIsNumberOfPairs ==
    /\ List_get_edge_count =
          Cardinality({p \in List_EdgeSet : p[1] # p[2]})
    /\ Matrix_get_edge_count =
          Cardinality({p \in Matrix_EdgeSet : p[1] # p[2]})

\* an edge was added twice or more edges were added, then one was removed
C1_Witness ==
    /\ call.op = "remove_edge"
    /\ NeitherRaised
    /\ calls = MaxCalls
    /\ List_get_edge_count = 1
    /\ Matrix_get_edge_count = 1

\* C2: for every vertex u in range add_edge(u,u) fails with
\* InvalidEdgeException in both representations and leaves edge set,
\* edge_count and all weights unchanged; has_edge(u,u) is false in every
\* reachable state.
C2_SelfLoopStep ==
    \A u \in Vertices :
        (call'.op = "add_edge" /\ call'.args = <<u, u>>)
        => /\ list_raised' = loop_not_allowed(u)
           /\ matrix_raised' = loop_not_allowed(u)
           /\ EdgeState' = EdgeState
           /\ UNCHANGED graphVars

C2_NoSelfLoop ==
    \A u \in Vertices :
        /\ List_has_edge(u, u) = Returns(FALSE)
        /\ Matrix_has_edge(u, u) = Returns(FALSE)

C2_SelfLoopRejected == [][C2_SelfLoopStep]_vars /\ []C2_NoSelfLoop

\* add_edge(u,u) was refused on a graph that already holds an edge
C2_Witness ==
    /\ call.op = "add_edge"
    /\ Len(call.args) = 2
    /\ call.args[1] = call.args[2]
    /\ InRange(call.args[1])
    /\ BothRaisedClass("InvalidEdgeException")
    /\ List_get_edge_count >= 1

\* C3: add_edge(u,v) on an edge that already exists raises nothing and
\* leaves the edge set, edge_count and the weight of (u,v) as they were, in
\* both representations.
C3_AddExistingStep ==
    \A u, v \in Vertices :
        (/\ call'.op = "add_edge"
         /\ call'.args = <<u, v>>
         /\ <<u, v>> \in List_EdgeSet
         /\ <<u, v>> \in Matrix_EdgeSet)
        => /\ list_raised' = NoException
           /\ matrix_raised' = NoException
           /\ List_EdgeSet' = List_EdgeSet
           /\ Matrix_EdgeSet' = Matrix_EdgeSet
           /\ List_get_edge_count' = List_get_edge_count
           /\ Matrix_get_edge_count' = Matrix_get_edge_count
           /\ List_get_edge_weight(u, v)' = List_get_edge_weight(u, v)
           /\ Matrix_get_edge_weight(u, v)' = Matrix_get_edge_weight(u, v)

C3_AddEdgeIdempotent == [][C3_AddExistingStep]_vars

\* add_edge returned on an edge whose weight had been set before
C3_Witness ==
    /\ call.op = "add_edge"
    /\ NeitherRaised
    /\ List_get_edge_weight(call.args[1], call.args[2]) = Returns(2)
    /\ Matrix_get_edge_weight(call.args[1], call.args[2]) = Returns(2)

\* C4: remove_edge(u,v) with u,v in range and the edge absent raises nothing
\* and changes nothing; on a present edge it removes exactly that edge and
\* decrements edge_count by one (other weights kept), so a second identical
\* remove_edge is a no-op.
C4_RemoveStep ==
    \A u, v \in Vertices :
        (call'.op = "remove_edge" /\ call'.args = <<u, v>>)
        => /\ list_raised' = NoException
           /\ matrix_raised' = NoException
           /\ List_EdgeSet' = List_EdgeSet \ {<<u, v>>}
           /\ Matrix_EdgeSet' = Matrix_EdgeSet \ {<<u, v>>}
           /\ \A p \in List_EdgeSet' : List_Weights'[p] = List_Weights[p]
           /\ \A p \in Matrix_EdgeSet' : Matrix_Weights'[p] = Matrix_Weights[p]
           /\ IF <<u, v>> \in List_EdgeSet
              THEN List_get_edge_count' = List_get_edge_count - 1
              ELSE List_get_edge_count' = List_get_edge_count
                   /\ UNCHANGED listVars
           /\ IF <<u, v>> \in Matrix_EdgeSet
              THEN Matrix_get_edge_count' = Matrix_get_edge_count - 1
              ELSE Matrix_get_edge_count' = Matrix_get_edge_count
                   /\ UNCHANGED matrixVars
           \* the same remove_edge twice in a row: the second changes nothing
           /\ (call.op = call'.op /\ call.args = call'.args)
              => UNCHANGED graphVars

C4_RemoveEdgeIdempotent == [][C4_RemoveStep]_vars

\* an edge was added and remove_edge then returned twice, leaving it absent
C4_Witness ==
    /\ call.op = "remove_edge"
    /\ NeitherRaised
    /\ calls = 3
    /\ List_get_edge_count = 0
    /\ Matrix_get_edge_count = 0
    /\ InRange(call.args[1])
    /\ InRange(call.args[2])
    /\ call.args[1] # call.args[2]

\* The vertex indices among the arguments of a call.
VertexArgsOf(c) ==
    IF c.op \in {"add_edge", "remove_edge", "set_edge_weight"}
    THEN {c.args[1], c.args[2]}
    ELSE IF c.op \in {"set_vertex_weight", "set_vertex_label"}
    THEN {c.args[1]}
    ELSE {}

\* the first out-of-range index of a pair of indices
FirstInvalid(u, v) == IF ~InRange(u) THEN u ELSE v

RaisesInvalidVertex(result, x) ==
    result = Raises(InvalidVertexException(x, num_vertices - 1))

\* C5: every operation that takes vertex indices fails with
\* InvalidVertexException when an index is negative or >= vertex_count
\* (add_edge(u,u) with u out of range included), and the failed call leaves
\* the whole graph state unchanged.
C5_MutatorStep ==
    (\E x \in VertexArgsOf(call') : ~InRange(x))
    => /\ list_raised'.cls = "InvalidVertexException"
       /\ matrix_raised'.cls = "InvalidVertexException"
       /\ UNCHANGED graphVars

C5_Reads ==
    /\ \A u, v \in VertexArgs : (~InRange(u) \/ ~InRange(v)) =>
          /\ RaisesInvalidVertex(List_has_edge(u, v), FirstInvalid(u, v))
          /\ RaisesInvalidVertex(Matrix_has_edge(u, v), FirstInvalid(u, v))
          /\ RaisesInvalidVertex(List_get_edge_weight(u, v), FirstInvalid(u, v))
          /\ RaisesInvalidVertex(Matrix_get_edge_weight(u, v), FirstInvalid(u, v))
    /\ \A u \in VertexArgs : ~InRange(u) =>
          /\ RaisesInvalidVertex(List_get_vertex_in_degree(u), u)
          /\ RaisesInvalidVertex(Matrix_get_vertex_in_degree(u), u)
          /\ RaisesInvalidVertex(List_get_vertex_out_degree(u), u)
          /\ RaisesInvalidVertex(Matrix_get_vertex_out_degree(u), u)
          /\ RaisesInvalidVertex(List_get_successors(u), u)
          /\ RaisesInvalidVertex(Matrix_get_successors(u), u)
          /\ RaisesInvalidVertex(List_get_predecessors(u), u)
          /\ RaisesInvalidVertex(Matrix_get_predecessors(u), u)
          /\ RaisesInvalidVertex(List_get_vertex_weight(u), u)
          /\ RaisesInvalidVertex(Matrix_get_vertex_weight(u), u)
          /\ RaisesInvalidVertex(List_get_vertex_label(u), u)
          /\ RaisesInvalidVertex(Matrix_get_vertex_label(u), u)

C5_InvalidVertexRejected == [][C5_MutatorStep]_vars /\ []C5_Reads

\* add_edge(u,u) with u out of range failed on a graph that holds an edge
C5_Witness ==
    /\ call.op = "add_edge"
    /\ call.args[1] = call.args[2]
    /\ ~InRange(call.args[1])
    /\ BothRaisedClass("InvalidVertexException")
    /\ List_get_edge_count >= 1
    /\ Matrix_get_edge_count >= 1

\* Two results agree: the same exception, or the same returned value.
SameResult(a, b) ==
    /\ a.raised = b.raised
    /\ (a.raised = NoException => a.value = b.value)

\* C6: after every step of a common sequence of add_edge, remove_edge and
\* set_edge_weight calls the two graphs agree on get_edge_count, has_edge,
\* in-degree, out-degree and get_edge_weight (same value or same error), and
\* the call succeeded or failed with the same error kind in both.
C6_RepresentationsAgree ==
    /\ List_get_edge_count = Matrix_get_edge_count
    /\ list_raised.cls = matrix_raised.cls
    /\ \A u, v \in VertexArgs :
          /\ SameResult(List_has_edge(u, v), Matrix_has_edge(u, v))
          /\ SameResult(List_get_edge_weight(u, v), Matrix_get_edge_weight(u, v))
    /\ \A u \in VertexArgs :
          /\ SameResult(List_get_vertex_in_degree(u), Matrix_get_vertex_in_degree(u))
          /\ SameResult(List_get_vertex_out_degree(u), Matrix_get_vertex_out_degree(u))

\* set_edge_weight succeeded on graphs where one vertex has two incoming edges
C6_Witness ==
    /\ call.op = "set_edge_weight"
    /\ NeitherRaised
    /\ \E u \in Vertices : List_get_vertex_in_degree(u) = Returns(2)
    /\ \E p \in Matrix_EdgeSet : Matrix_Weights[p] = Returns(2)

\* C7 as claimed: get_successors(u) and get_predecessors(u) return the same
\* list, elements in the same order, in both representations.
C7_SameOrderAsClaimed ==
    \A u \in Vertices :
        /\ List_get_successors(u) = Matrix_get_successors(u)
        /\ List_get_predecessors(u) = Matrix_get_predecessors(u)

\* C7 (amended): get_successors(u) returns the same vertices, each once, in
\* both representations (the list graph in insertion order, the matrix graph
\* in ascending order), and get_predecessors(u) returns the same list in the
\* same order.
C7_SameSuccessorSet ==
    \A u \in Vertices :
        /\ Elements(List_get_successors(u).value)
              = Elements(Matrix_get_successors(u).value)
        /\ Len(List_get_successors(u).value)
              = Len(Matrix_get_successors(u).value)
        /\ Cardinality(Elements(List_get_successors(u).value))
              = Len(List_get_successors(u).value)
        /\ \A i, j \in 1 .. Len(Matrix_get_successors(u).value) :
              i < j => Matrix_get_successors(u).value[i]
                          < Matrix_get_successors(u).value[j]
        /\ List_get_predecessors(u) = Matrix_get_predecessors(u)

\* a vertex whose successors were inserted in descending order
C7_Witness ==
    \E u \in Vertices :
        /\ Len(List_get_successors(u).value) = 2
        /\ List_get_successors(u).value # Matrix_get_successors(u).value
        /\ \E x \in Vertices : Len(List_get_predecessors(x).value) = 2

\* C8 as claimed: weight access on a missing edge fails with an error kind
\* of its own, separate from the kind add_edge(u,u) fails with.
C8_OwnKindAsClaimed ==
    \A u, v \in Vertices :
        (/\ call.op = "set_edge_weight"
         /\ call.args[1] = u
         /\ call.args[2] = v
         /\ <<u, v>> \notin List_EdgeSet
         /\ <<u, v>> \notin Matrix_EdgeSet)
        => /\ ErrorKind(list_raised) # ErrorKind(NoException)
           /\ ErrorKind(matrix_raised) # ErrorKind(NoException)
           /\ ErrorKind(list_raised) # ErrorKind(loop_not_allowed(u))
           /\ ErrorKind(matrix_raised) # ErrorKind(loop_not_allowed(u))
           /\ ErrorKind(List_get_edge_weight(u, v).raised)
                 \notin {ErrorKind(NoException), ErrorKind(loop_not_allowed(u))}
           /\ ErrorKind(Matrix_get_edge_weight(u, v).raised)
                 \notin {ErrorKind(NoException), ErrorKind(loop_not_allowed(u))}

\* C8 (amended): set_edge_weight(u,v,w) and get_edge_weight(u,v) with u,v in
\* range and edge (u,v) absent fail with InvalidEdgeException built by
\* edge_not_found, the same exception class as the self-loop error (only the
\* message differs), and leave the graph unchanged; set_edge_weight never
\* creates an edge.
C8_SetMissingStep ==
    \A u, v \in Vertices :
        (/\ call'.op = "set_edge_weight"
         /\ call'.args[1] = u
         /\ call'.args[2] = v
         /\ <<u, v>> \notin List_EdgeSet
         /\ <<u, v>> \notin Matrix_EdgeSet)
        => /\ list_raised' = edge_not_found(u, v)
           /\ matrix_raised' = edge_not_found(u, v)
           /\ ErrorKind(list_raised') = ErrorKind(loop_not_allowed(u))
           /\ list_raised' # loop_not_allowed(u)
           /\ EdgeState' = EdgeState
           /\ UNCHANGED graphVars

C8_GetMissing ==
    \A u, v \in Vertices :
        /\ <<u, v>> \notin List_EdgeSet
              => List_get_edge_weight(u, v) = Raises(edge_not_found(u, v))
        /\ <<u, v>> \notin Matrix_EdgeSet
              => Matrix_get_edge_weight(u, v) = Raises(edge_not_found(u, v))

C8_MissingEdgeWeightRejected == [][C8_SetMissingStep]_vars /\ []C8_GetMissing

\* set_edge_weight failed on an absent edge of a graph that holds another edge
C8_Witness ==
    /\ call.op = "set_edge_weight"
    /\ list_raised = edge_not_found(call.args[1], call.args[2])
    /\ matrix_raised = edge_not_found(call.args[1], call.args[2])
    /\ call.args[1] # call.args[2]
    /\ List_get_edge_count >= 1
    /\ List_get_edge_weight(call.args[1], call.args[2]).raised # NoException

\* C9: a newly created edge has weight 0; set_edge_weight(u,v,w) on an
\* existing edge makes get_edge_weight(u,v) return w and changes neither
\* edge_count, nor the edge set, nor the weight of any other edge (the
\* reverse edge included); the weight of (u,v) then stays until the next
\* set_edge_weight or remove_edge on (u,v).
C9_WeightStep ==
    /\ \A u, v \in Vertices :
          (/\ call'.op = "add_edge"
           /\ call'.args = <<u, v>>
           /\ <<u, v>> \notin List_EdgeSet
           /\ <<u, v>> \in List_EdgeSet')
          => /\ List_get_edge_weight(u, v)' = Returns(0)
             /\ Matrix_get_edge_weight(u, v)' = Returns(0)
    /\ \A u, v \in Vertices :
          (/\ call'.op = "set_edge_weight"
           /\ call'.args[1] = u
           /\ call'.args[2] = v
           /\ <<u, v>> \in List_EdgeSet
           /\ <<u, v>> \in Matrix_EdgeSet)
          => /\ list_raised' = NoException
             /\ matrix_raised' = NoException
             /\ List_get_edge_weight(u, v)' = Returns(call'.args[3])
             /\ Matrix_get_edge_weight(u, v)' = Returns(call'.args[3])
             /\ List_get_edge_count' = List_get_edge_count
             /\ Matrix_get_edge_count' = Matrix_get_edge_count
             /\ List_EdgeSet' = List_EdgeSet
             /\ Matrix_EdgeSet' = Matrix_EdgeSet
             /\ \A p \in List_EdgeSet \ {<<u, v>>} :
                   List_Weights'[p] = List_Weights[p]
             /\ \A p \in Matrix_EdgeSet \ {<<u, v>>} :
                   Matrix_Weights'[p] = Matrix_Weights[p]
    /\ \A p \in List_EdgeSet \cap Matrix_EdgeSet :
          ~(/\ call'.op \in {"set_edge_weight", "remove_edge"}
            /\ call'.args[1] = p[1]
            /\ call'.args[2] = p[2])
          => /\ List_get_edge_weight(p[1], p[2])' = List_get_edge_weight(p[1], p[2])
             /\ Matrix_get_edge_weight(p[1], p[2])' = Matrix_get_edge_weight(p[1], p[2])

C9_EdgeWeights == [][C9_WeightStep]_vars

\* set_edge_weight succeeded on an edge whose reverse edge keeps weight 0
C9_Witness ==
    /\ call.op = "set_edge_weight"
    /\ NeitherRaised
    /\ List_get_edge_weight(call.args[1], call.args[2]) = Returns(call.args[3])
    /\ Matrix_get_edge_weight(call.args[1], call.args[2]) = Returns(call.args[3])
    /\ List_get_edge_weight(call.args[2], call.args[1]) = Returns(0)
    /\ Matrix_get_edge_weight(call.args[2], call.args[1]) = Returns(0)

\* C10: for every vertex u, get_vertex_out_degree(u) equals the number of v
\* with has_edge(u,v) and the length of get_successors(u);
\* get_vertex_in_degree(u) equals the number of v with has_edge(v,u) and the
\* length of get_predecessors(u); the in-degrees and the out-degrees each sum
\* to edge_count and get_vertex_total_degree(u) is their sum.
C10_Degrees ==
    LET listEdges == List_EdgeSet
        matrixEdges == Matrix_EdgeSet
        listIn == [u \in Vertices |-> List_get_vertex_in_degree(u).value]
        listOut == [u \in Vertices |-> List_get_vertex_out_degree(u).value]
        matrixIn == [u \in Vertices |-> Matrix_get_vertex_in_degree(u).value]
        matrixOut == [u \in Vertices |-> Matrix_get_vertex_out_degree(u).value]
    IN
    /\ \A u \in Vertices :
          /\ List_get_vertex_out_degree(u).raised = NoException
          /\ List_get_vertex_in_degree(u).raised = NoException
          /\ Matrix_get_vertex_out_degree(u).raised = NoException
          /\ Matrix_get_vertex_in_degree(u).raised = NoException
          /\ listOut[u] = Cardinality({p \in listEdges : p[1] = u})
          /\ listOut[u] = Len(List_get_successors(u).value)
          /\ listIn[u] = Cardinality({p \in listEdges : p[2] = u})
          /\ listIn[u] = Len(List_get_predecessors(u).value)
          /\ List_get_vertex_total_degree(u) = Returns(listIn[u] + listOut[u])
          /\ matrixOut[u] = Cardinality({p \in matrixEdges : p[1] = u})
          /\ matrixOut[u] = Len(Matrix_get_successors(u).value)
          /\ matrixIn[u] = Cardinality({p \in matrixEdges : p[2] = u})
          /\ matrixIn[u] = Len(Matrix_get_predecessors(u).value)
          /\ Matrix_get_vertex_total_degree(u) = Returns(matrixIn[u] + matrixOut[u])
    /\ SumUpTo(listIn, num_vertices) = List_get_edge_count
    /\ SumUpTo(listOut, num_vertices) = List_get_edge_count
    /\ SumUpTo(matrixIn, num_vertices) = Matrix_get_edge_count
    /\ SumUpTo(matrixOut, num_vertices) = Matrix_get_edge_count

\* a vertex with two outgoing edges and one incoming edge
C10_Witness ==
    \E u \in Vertices :
        /\ List_get_vertex_out_degree(u) = Returns(2)
        /\ Matrix_get_vertex_out_degree(u) = Returns(2)
        /\ List_get_vertex_in_degree(u) = Returns(1)
        /\ Matrix_get_vertex_total_degree(u) = Returns(3)

\* the vertices reached from s in at most k steps along edges
RECURSIVE ReachableWithin(_, _, _)
ReachableWithin(edges, s, k) ==
    IF k = 0 THEN {s}
    ELSE LET before == ReachableWithin(edges, s, k - 1)
         IN  before \cup {p[2] : p \in {q \in edges : q[1] \in before}}

Reaches(edges, s, t) == t \in ReachableWithin(edges, s, num_vertices)

StronglyConnected(edges) == \A s, t \in Vertices : Reaches(edges, s, t)

\* C11: is_connected() returns true if and only if every vertex t is
\* reachable from every vertex s along directed edges, and it returns true
\* for graphs of 0 or 1 vertices, in both representations.
C11_IsConnectedIffAllReachable ==
    /\ List_is_connected = StronglyConnected(List_EdgeSet)
    /\ Matrix_is_connected = StronglyConnected(Matrix_EdgeSet)
    /\ num_vertices <= 1 => List_is_connected /\ Matrix_is_connected

\* a directed cycle through three vertices: strongly connected although no
\* vertex has an edge to every other vertex
C11_Witness ==
    /\ num_vertices = 3
    /\ List_get_edge_count = 3
    /\ List_is_connected
    /\ Matrix_is_connected

\* C12: is_empty_graph() is true iff no edge is present, and
\* is_complete_graph() is true iff has_edge(u,v) holds for every ordered pair
\* of distinct vertices, which is vacuously so when there is at most one
\* vertex.
C12_EmptyAndComplete ==
    /\ List_is_empty_graph = (List_EdgeSet = {})
    /\ Matrix_is_empty_graph = (Matrix_EdgeSet = {})
    /\ List_is_complete_graph =
           (\A u, v \in Vertices : u # v => List_has_edge(u, v).value)
    /\ Matrix_is_complete_graph =
           (\A u, v \in Vertices : u # v => Matrix_has_edge(u, v).value)
    /\ num_vertices <= 1 => List_is_complete_graph /\ Matrix_is_complete_graph

\* two vertices with both edges between them: complete and not empty
C12_Witness ==
    /\ num_vertices = 2
    /\ List_is_complete_graph
    /\ Matrix_is_complete_graph
    /\ ~List_is_empty_graph
    /\ List_has_edge(0, 1).value /\ List_has_edge(1, 0).value

VertexAttributes ==
    <<list_vertex_weights, list_vertex_labels,
      matrix_vertex_weights, matrix_vertex_labels>>

\* C13: the vertex count never changes; add_edge, remove_edge and
\* set_edge_weight leave every vertex weight and label unchanged;
\* set_vertex_weight and set_vertex_label change only the addressed vertex's
\* attribute and leave the edge set, edge_count and edge weights unchanged.
C13_FrameStep ==
    /\ num_vertices' = num_vertices
    /\ call'.op \in {"add_edge", "remove_edge", "set_edge_weight"} =>
           VertexAttributes' = VertexAttributes
    /\ call'.op = "set_vertex_weight" =>
           /\ EdgeState' = EdgeState
           /\ list_vertex_labels' = list_vertex_labels
           /\ matrix_vertex_labels' = matrix_vertex_labels
           /\ \A x \in Vertices : x # call'.args[1] =>
                  /\ List_get_vertex_weight(x)' = List_get_vertex_weight(x)
                  /\ Matrix_get_vertex_weight(x)' = Matrix_get_vertex_weight(x)
    /\ call'.op = "set_vertex_label" =>
           /\ EdgeState' = EdgeState
           /\ list_vertex_weights' = list_vertex_weights
           /\ matrix_vertex_weights' = matrix_vertex_weights
           /\ \A x \in Vertices : x # call'.args[1] =>
                  /\ List_get_vertex_label(x)' = List_get_vertex_label(x)
                  /\ Matrix_get_vertex_label(x)' = Matrix_get_vertex_label(x)

C13_AttributesIndependentOfEdges == [][C13_FrameStep]_vars

\* a label set on a vertex that already has a weight and an edge: the weight
\* and the edge are still there
C13_Witness ==
    /\ call.op = "set_vertex_label"
    /\ NeitherRaised
    /\ List_get_vertex_label(call.args[1]) = Returns(call.args[2])
    /\ Matrix_get_vertex_label(call.args[1]) = Returns(call.args[2])
    /\ List_get_vertex_weight(call.args[1]).value # 0
    /\ List_get_edge_count = 1

RecognisedMetrics ==
    {"degree_in", "degree_out", "degree_total", "betweenness", "closeness",
     "pagerank", "eigenvector"}

TopCentralNodesReturned == method = "get_top_central_nodes" /\ pc = "returned"

\* C14: no method of CentralityMetrics, StructureMetrics, CommunityMetrics
\* or GraphMetricsAnalyzer changes the graph: with every step of a call the
\* vertex count, the edge set, edge_count, the edge weights, the vertex
\* weights and the vertex labels of both graphs stay as they were.
C14_FrameStep ==
    /\ UNCHANGED <<num_vertices, graphVars>>
    /\ EdgeState' = EdgeState
    /\ VertexAttributes' = VertexAttributes

C15_UnknownMetricRejected ==
    TopCentralNodesReturned =>
        IF params.metric \in RecognisedMetrics
        THEN /\ engine_raised = NoException
             /\ \A i \in 1 .. Len(ranking) :
                    /\ ranking[i][1] \in Vertices
                    /\ \A j \in 1 .. Len(ranking) :
                           ranking[i][1] = ranking[j][1] => i = j
        ELSE /\ ErrorKind(engine_raised) = "ValueError"
             /\ engine_raised = ValueError(params.metric)
             /\ ranking = <<>>

\* an unknown metric name was refused on a graph that has vertices to rank
C15_Witness ==
    /\ TopCentralNodesReturned
    /\ params.metric = "degree"
    /\ params.n = 2
    /\ num_vertices >= 2
    /\ ErrorKind(engine_raised) = "ValueError"

\* The raw centrality map of the aggregate result for the metric of the call.
RawScores == get_all_centralities(self_graph)[params.metric]

\* u comes before v in a ranking by descending score and ascending index
Outranks(scores, u, v) ==
    \/ RatioLess(scores[v], scores[u])
    \/ RatioEqual(scores[u], scores[v]) /\ u < v

\* the first k vertices of the ranking re-derived from a raw map
Rederived(scores, k) ==
    [i \in 1 .. k |->
        CHOOSE v \in DOMAIN scores :
            Cardinality({u \in DOMAIN scores : Outranks(scores, u, v)}) = i - 1]

RankedVertices(r) == [i \in 1 .. Len(r) |-> r[i][1]]

Min(a, b) == IF a < b THEN a ELSE b

\* non-increasing scores, equal scores by ascending vertex index
InRankingOrder(r) ==
    \A i, j \in 1 .. Len(r) :
        i < j => /\ ~RatioLess(r[i][2], r[j][2])
                 /\ RatioEqual(r[i][2], r[j][2]) => r[i][1] < r[j][1]

\* the key of the analyzer's rankings that is derived from a metric's map
RankingsKey(metric) ==
    CASE metric = "pagerank" -> "top_pagerank"
      [] metric = "betweenness" -> "top_betweenness"
      [] metric = "closeness" -> "top_closeness"
      [] metric = "degree_total" -> "top_degree"
      [] OTHER -> "top_" \o metric

AnalyzeAllReturned == method = "analyze_all" /\ pc = "returned"

\* C16 as claimed: for every graph and recognised metric,
\* get_top_central_nodes(metric, n) returns min(n, vertex_count) entries in
\* non-increasing score order, equal scores by ascending vertex index, and
\* the list equals the ranking re-derived from the raw centrality map of the
\* aggregate result and the analyzer's own rankings entry for that metric.
C16_RankingAsClaimed ==
    /\ (TopCentralNodesReturned /\ engine_raised = NoException /\ params.n >= 0)
       => /\ Len(ranking) = Min(params.n, num_vertices)
          /\ InRankingOrder(ranking)
          /\ RankedVertices(ranking) = Rederived(RawScores, Len(ranking))
    /\ AnalyzeAllReturned
       => \A metric \in RecognisedMetrics :
              /\ RankingsKey(metric) \in DOMAIN results.rankings
              /\ \A n \in {k \in NArgs : k >= 0} :
                     Slice(results.rankings[RankingsKey(metric)], n)
                     = get_top_central_nodes(self_graph, metric, n).value

\* C16: for every graph, recognised metric and n >= 0,
\* get_top_central_nodes(metric, n) returns min(n, size of the metric's map)
\* entries (vertex, score of the map, label), where the map has one entry
\* per vertex except that the three degree maps are empty for a graph of at
\* most one vertex, in non-increasing score order with equal scores by
\* ascending vertex index; a negative n drops the last -n entries.  The list
\* equals the ranking re-derived from the raw centrality map of the aggregate
\* result, and for pagerank, betweenness, closeness and degree_total (key
\* top_degree) its first 10 entries equal the first n of the analyzer's
\* rankings entry, which holds 10 entries at most; the analyzer has no
\* rankings entry for degree_in, degree_out and eigenvector.
C16_RankingMatchesMap ==
    /\ (TopCentralNodesReturned /\ engine_raised = NoException)
       => LET scores == RawScores
              size == Cardinality(DOMAIN scores)
          IN  /\ size = IF /\ num_vertices <= 1
                           /\ params.metric \in
                                  {"degree_in", "degree_out", "degree_total"}
                        THEN 0 ELSE num_vertices
              /\ Len(ranking) = IF params.n >= 0 THEN Min(params.n, size)
                                ELSE IF size + params.n > 0
                                THEN size + params.n ELSE 0
              /\ InRankingOrder(ranking)
              /\ RankedVertices(ranking) = Rederived(scores, Len(ranking))
              /\ \A i \in 1 .. Len(ranking) :
                     ranking[i] = <<ranking[i][1], scores[ranking[i][1]],
                                    label_or_index(self_graph, ranking[i][1])>>
    /\ AnalyzeAllReturned
       => /\ results.centrality = get_all_centralities(self_graph)
          /\ DOMAIN results.rankings =
                 {"top_pagerank", "top_betweenness", "top_degree",
                  "top_closeness", "top_bridging"}
          /\ \A metric \in {"pagerank", "betweenness", "closeness",
                              "degree_total"} :
                 \A n \in {k \in NArgs : k >= 0} :
                     Slice(results.rankings[RankingsKey(metric)], n)
                     = Slice(get_top_central_nodes(self_graph, metric, n).value,
                             DefaultN)

\* the two best of the star graph by in-degree: the leaves 1 and 2 have the
\* score of leaf 3 and come first by index
C16_Witness ==
    /\ TopCentralNodesReturned
    /\ params.metric = "degree_in"
    /\ params.n = 2
    /\ num_vertices = StarGraph.n
    /\ Len(ranking) = 2
    /\ RankedVertices(ranking) = <<1, 2>>
    /\ RatioEqual(ranking[1][2], RawScores[3])

SweepMethods ==
    {"detect_communities_label_propagation", "analyze_all",
     "detect_communities_louvain"}

PowerMethods == {"pagerank", "eigenvector_centrality"}

\* the vertex that ends the sweep when it is visited
LastOfSweep == CHOOSE v \in unvisited : TRUE

\* the iterations of the running method never exceed max_iter, and a sweep
\* starts with its changed flag down
C17_IterationBound ==
    /\ method \in SweepMethods \cup PowerMethods => iteration <= params.max_iter
    /\ (method \in SweepMethods /\ pc = "loop" /\ unvisited = Vertices)
       => ~changed

\* a pass of a power iteration is the last one exactly when its max_diff is
\* below tol or it is pass number max_iter; a sweep is the last one exactly
\* when no vertex changed in it or (label propagation) it is sweep number
\* max_iter, (louvain) it improved nothing or it is sweep number max_iter
C17_StopStep ==
    pc = "loop" =>
        /\ method \in PowerMethods
           => /\ iteration' = iteration + 1
              /\ pc' = "returned"
                 <=> \/ RatioLess(max_diff_of(centrality', centrality), params.tol)
                     \/ iteration' >= params.max_iter
        /\ (method \in SweepMethods /\ Cardinality(unvisited) > 1)
           => pc' = "loop" /\ iteration' = iteration
        /\ (method \in SweepMethods /\ Cardinality(unvisited) = 1)
           => LET no_change ==
                      IF method = "detect_communities_louvain"
                      THEN /\ ~changed
                           /\ louvain_visit(self_graph, labels, LastOfSweep)
                              = labels
                      ELSE /\ ~changed
                           /\ label_propagation_visit(self_graph, labels,
                                                      LastOfSweep) = labels
              IN  /\ pc' = "returned"
                     <=> (no_change \/ iteration >= params.max_iter)
                  /\ pc' = "loop" => iteration' = iteration + 1

\* C17: every iterative algorithm terminates on every graph: pagerank and
\* eigenvector_centrality make at most max_iter passes, the two community
\* detections at most max_iter sweeps, each stops at the first pass below
\* tol or the first sweep in which no vertex changed, and every call that
\* entered its loop returns.
C17_Terminates ==
    /\ []C17_IterationBound
    /\ [][C17_StopStep]_vars
    /\ (pc = "loop") ~> (pc = "returned")

\* pagerank stopped below tol before the last of its max_iter passes
C17_Witness ==
    /\ method = "pagerank"
    /\ pc = "returned"
    /\ num_vertices >= 2
    /\ iteration >= 1
    /\ iteration < params.max_iter

\* Both graphs are the graph of test_strong_communities.
TwoTrianglesBuilt ==
    /\ num_vertices = TwoTrianglesGraph.n
    /\ list_adjacency_list =
           AddedEdges([x \in Vertices |-> <<>>], TwoTrianglesGraph.edges)
    /\ Matrix_EdgeSet = Elements(TwoTrianglesGraph.edges)

\* the communities of an assignment, as sets of vertices
Communities(assignment) ==
    {{v \in DOMAIN assignment : assignment[v] = c} : c \in Values(assignment)}

\* C18: on the graph of two bidirectional triangles {0,1,2} and {3,4,5}
\* joined by the edge 2->3, built in the order of test_modularity.py,
\* detect_communities_label_propagation() returns exactly the 2 communities
\* {0,1,2} and {3,4,5}, whatever the visiting order of each sweep.
C18_TwoTriangles ==
    (/\ TwoTrianglesBuilt
     /\ method = "detect_communities_label_propagation"
     /\ params.max_iter = DefaultMaxIter
     /\ pc = "returned")
    => /\ Communities(labels) = {{0, 1, 2}, {3, 4, 5}}
       /\ Cardinality(Values(labels)) = 2

\* the call returned after three sweeps on the matrix representation
C18_Witness ==
    /\ TwoTrianglesBuilt
    /\ method = "detect_communities_label_propagation"
    /\ params.max_iter = DefaultMaxIter
    /\ pc = "returned"
    /\ self_graph = "matrix"
    /\ iteration = 3
    /\ labels[0] # labels[5]

\* C19: the mapping returned by detect_communities_label_propagation and by
\* detect_communities_louvain gives every vertex 0..V-1 a community id and
\* the ids used are exactly 0 .. k-1 for k communities; renumbering any
\* assignment the loops reach keeps its partition and makes its ids dense.
C19_DenseIds ==
    method \in SweepMethods =>
        /\ pc = "returned"
           => /\ DOMAIN labels = Vertices
              /\ Values(labels) = 0 .. (Cardinality(Values(labels)) - 1)
        /\ pc = "loop"
           => LET renumbered == _renumber_communities(labels)
              IN  /\ DOMAIN renumbered = Vertices
                  /\ Values(renumbered) = 0 .. (Cardinality(Values(labels)) - 1)
                  /\ \A u, v \in Vertices :
                         renumbered[u] = renumbered[v] <=> labels[u] = labels[v]

\* louvain returned two communities on four vertices or more
C19_Witness ==
    /\ method = "detect_communities_louvain"
    /\ pc = "returned"
    /\ num_vertices >= 4
    /\ Cardinality(Values(labels)) = 2
    /\ Values(labels) = {0, 1}

\* ------------------------------------------------ the shape of the graph
\* the edges of the graph of the engine, as has_edge reports them
Graph_EdgeSet == {p \in VertexPairs : Graph_has_edge(self_graph, p[1], p[2])}

\* some method returned: the named one
MethodReturned(m) == method = m /\ pc = "returned"

\* dist holds the length of a shortest path from the source to each vertex
\* within k steps of it and -1 elsewhere, frontier the vertices at exactly k
\* steps: the vertices at k + 1 steps are the unreached heads of the edges
\* that leave the frontier
RECURSIVE DistancesBy(_, _, _, _)
DistancesBy(edges, dist, frontier, k) ==
    IF frontier = {} THEN dist
    ELSE LET next == {t \in Vertices :
                         dist[t] = -1 /\ \E u \in frontier : <<u, t>> \in edges}
         IN  DistancesBy(edges,
                         [t \in Vertices |-> IF t \in next THEN k + 1 ELSE dist[t]] @@ <<>>,
                         next, k + 1)

\* the length of a shortest path from s to each vertex, -1 for a vertex
\* that s does not reach
DistancesFrom(edges, s) ==
    DistancesBy(edges, [t \in Vertices |-> IF t = s THEN 0 ELSE -1] @@ <<>>, {s}, 0)

\* dist[s][t] for every ordered pair
Distances(edges) == [s \in Vertices |-> DistancesFrom(edges, s)] @@ <<>>

\* the ordered pairs (s, t) of distinct vertices with t reachable from s
ReachablePairs(dist) ==
    {p \in VertexPairs : p[1] # p[2] /\ dist[p[1]][p[2]] > 0}

RECURSIVE ShortestPaths(_, _, _, _)
ShortestPaths(edges, dist, s, t) ==
    IF s = t THEN 1
    ELSE SumUpTo([u \in Vertices |->
                     IF <<u, t>> \in edges /\ dist[s][u] = dist[s][t] - 1
                     THEN ShortestPaths(edges, dist, s, u)
                     ELSE 0],
                 num_vertices)

\* the number of shortest paths from s to t that pass through v
ShortestPathsThrough(edges, dist, s, t, v) ==
    IF /\ dist[s][v] >= 0
       /\ dist[v][t] >= 0
       /\ dist[s][v] + dist[v][t] = dist[s][t]
    THEN ShortestPaths(edges, dist, s, v) * ShortestPaths(edges, dist, v, t)
    ELSE 0

\* the sum over the ordered pairs (s, t), s # v # t, s # t, t reachable from
\* s, of the share of the shortest paths from s to t that pass through v
PairDependencies(edges, dist, v) ==
    LET share(s, t) ==
            IF s # v /\ t # v /\ s # t /\ dist[s][t] > 0
            THEN Ratio(ShortestPathsThrough(edges, dist, s, t, v),
                       ShortestPaths(edges, dist, s, t))
            ELSE Ratio(0, 1)
        pairs == num_vertices * num_vertices
    IN  ratio_sum_upto([k \in 0 .. (pairs - 1) |->
                           share(k \div num_vertices, k % num_vertices)],
                       pairs)

NeighbourSet(edges, v) ==
    {x \in Vertices : <<v, x>> \in edges \/ <<x, v>> \in edges}

\* the unordered vertex triples whose three pairs are each joined by an edge
\* in at least one direction
TriangleCount(edges) ==
    Cardinality({t \in SUBSET Vertices :
                    /\ Cardinality(t) = 3
                    /\ \A u, w \in t :
                           u # w => <<u, w>> \in edges \/ <<w, u>> \in edges})

\* the (centre vertex, unordered pair of its neighbours) combinations
TriadCount(edges) ==
    Cardinality({c \in Vertices \X (SUBSET Vertices) :
                    /\ Cardinality(c[2]) = 2
                    /\ c[2] \subseteq NeighbourSet(edges, c[1])})

\* C25: the 'global' clustering coefficient equals 3 * triangle_count /
\* triad_count, triangle_count being the number of distinct unordered vertex
\* triples joined pairwise in at least one direction and triad_count the
\* number of (centre, unordered pair of its neighbours) combinations; it is
\* 0 when there is no triad.
C25_GlobalClustering ==
    MethodReturned("clustering_coefficient") =>
        IF TriadCount(Graph_EdgeSet) = 0
        THEN results.global = Ratio(0, 1)
        ELSE RatioEqual(results.global,
                        Ratio(3 * TriangleCount(Graph_EdgeSet),
                              TriadCount(Graph_EdgeSet)))

\* ------------------------------------------------- a communities argument
\* the call was made with a dict that gives each vertex a community
TotalAssignment == DOMAIN params.communities = Vertices

\* C23: for every graph with at least one edge, modularity() of the
\* assignment that puts all vertices into one community is 0 (in exact
\* arithmetic m * sum(A_ij) - sum(k_out_i * k_in_j) = 0), and modularity()
\* returns 0 for any assignment when edge_count is 0.
C23_SingleCommunityModularity ==
    MethodReturned("modularity") =>
        LET m == Graph_num_edges(self_graph)
            pairs == num_vertices * num_vertices
            expected ==
                SumUpTo([k \in 0 .. (pairs - 1) |->
                            Graph_get_vertex_out_degree(self_graph,
                                                        k \div num_vertices)
                            * Graph_get_vertex_in_degree(self_graph,
                                                         k % num_vertices)],
                        pairs)
        IN  /\ m * Cardinality(Graph_EdgeSet) - expected = 0
            /\ (/\ m >= 1
                /\ TotalAssignment
                /\ Cardinality(Values(params.communities)) = 1)
               => results.num = 0
            /\ m = 0 => results = Ratio(0, 1)

\* all six vertices of the two triangles in one community
C23_Witness ==
    /\ MethodReturned("modularity")
    /\ TwoTrianglesBuilt
    /\ params.communities = [v \in Vertices |-> 0]
    /\ results.num = 0
    /\ results.den > 0

\* C26: for a total assignment with more than one community,
\* bridging_ties()[v] is the number of distinct communities among the
\* successors and predecessors of v over the number of communities, hence
\* in [0, 1]; it is 0 for every vertex when there is a single community; on
\* the two-triangle graph with communities {0,1,2}, {3,4,5} vertices 2 and
\* 3 have the highest score.
C26_BridgingTies ==
    (MethodReturned("bridging_ties") /\ TotalAssignment) =>
        LET communities == params.communities
            total == Cardinality(Values(communities))
            spanned(v) ==
                {communities[x] : x \in NeighbourSet(Graph_EdgeSet, v)}
        IN  /\ DOMAIN results = Vertices
            /\ total > 1 =>
                   \A v \in Vertices :
                       /\ RatioEqual(results[v],
                                     Ratio(Cardinality(spanned(v)), total))
                       /\ ~RatioLess(results[v], Ratio(0, 1))
                       /\ ~RatioLess(Ratio(1, 1), results[v])
            /\ total = 1 => \A v \in Vertices : results[v] = Ratio(0, 1)
            /\ (TwoTrianglesBuilt
                /\ Communities(communities) = {{0, 1, 2}, {3, 4, 5}})
               => /\ RatioEqual(results[2], results[3])
                  /\ \A v \in Vertices \ {2, 3} : RatioLess(results[v], results[2])

\* the two ends of the bridge 2 -> 3 touch both communities, the other
\* vertices only their own
C26_Witness ==
    /\ MethodReturned("bridging_ties")
    /\ TwoTrianglesBuilt
    /\ Communities(params.communities) = {{0, 1, 2}, {3, 4, 5}}
    /\ RatioEqual(results[2], Ratio(1, 1))
    /\ RatioEqual(results[3], Ratio(1, 1))
    /\ RatioEqual(results[0], Ratio(1, 2))

\* the sum of f over a set
RECURSIVE SumOver(_, _)
SumOver(f, set) ==
    IF set = {} THEN 0
    ELSE LET x == CHOOSE y \in set : TRUE
         IN  f[x] + SumOver(f, set \ {x})

\* C27: for every graph and every assignment that gives each vertex a
\* community, community_statistics and inter_community_edges account for
\* every vertex and edge exactly once: the sizes sum to vertex_count,
\* internal_edges plus external_edges summed over the communities is
\* edge_count, and the counts of inter_community_edges, keyed by the sorted
\* community pair, sum to the total of external_edges.
C27_Accounting ==
    LET communities == params.communities
        crossing == {e \in Graph_EdgeSet : communities[e[1]] # communities[e[2]]}
    IN  /\ (MethodReturned("community_statistics") /\ TotalAssignment) =>
               LET between == inter_community_edges(self_graph, communities)
               IN  /\ DOMAIN results = Values(communities)
                   /\ SumOver([c \in DOMAIN results |-> results[c].size],
                              DOMAIN results) = num_vertices
                   /\ \A c \in DOMAIN results :
                          /\ Len(results[c].members) = results[c].size
                          /\ \A i \in 1 .. Len(results[c].members) :
                                 communities[results[c].members[i]] = c
                   /\ SumOver([c \in DOMAIN results |->
                                  results[c].internal_edges
                                  + results[c].external_edges],
                              DOMAIN results) = Graph_num_edges(self_graph)
                   /\ SumOver([c \in DOMAIN results |-> results[c].external_edges],
                              DOMAIN results) = Cardinality(crossing)
                   /\ SumOver(between, DOMAIN between)
                      = SumOver([c \in DOMAIN results |->
                                    results[c].external_edges],
                                DOMAIN results)
        /\ (MethodReturned("inter_community_edges") /\ TotalAssignment) =>
               LET stats == community_statistics(self_graph, communities)
               IN  /\ \A k \in DOMAIN results : k[1] < k[2] /\ results[k] > 0
                   /\ SumOver(results, DOMAIN results) = Cardinality(crossing)
                   /\ SumOver(results, DOMAIN results)
                      = SumOver([c \in DOMAIN stats |-> stats[c].external_edges],
                                DOMAIN stats)

\* the two triangles split into their halves: three vertices and six
\* internal edges each, the bridge 2 -> 3 external to the first community
C27_Witness ==
    /\ MethodReturned("community_statistics")
    /\ TwoTrianglesBuilt
    /\ Communities(params.communities) = {{0, 1, 2}, {3, 4, 5}}
    /\ results[0].size = 3
    /\ results[0].internal_edges = 6
    /\ results[0].external_edges = 1
    /\ results[1].external_edges = 0
    /\ results[1].members = <<3, 4, 5>>

\* two assignments that group the vertices in the same way
SamePartition(a, b) ==
    \A i, j \in Vertices : (a[i] = a[j]) <=> (b[i] = b[j])

\* a step of the loop of detect_communities_louvain that moves the visited
\* vertex to another community
LouvainMove ==
    /\ method = "detect_communities_louvain"
    /\ pc = "loop"
    /\ ~SamePartition(labels, labels')

\* C24: whenever detect_communities_louvain commits a move of a vertex from
\* its community to another one, the modularity of the assignment with the
\* vertex moved is strictly greater than the modularity with the vertex left
\* where it was.
C24_MoveIncreasesModularity ==
    [][LouvainMove =>
           RatioLess(modularity(self_graph, labels),
                     modularity(self_graph, labels'))]_vars

\* the community statistics that analyze_community_only() reported to the
\* caller of get_community_members
ReportedStatistics ==
    IF DOMAIN results = {} THEN EmptyDict ELSE results.community_statistics

\* C28: for every community id that analyze_community_only() reported,
\* get_community_members(id) on the same analyzer returns exactly the
\* vertices listed as the members of that id in the reported
\* community_statistics.
C28_MembersAsReported ==
    (/\ MethodReturned("get_community_members")
     /\ params.community_id \in DOMAIN ReportedStatistics)
    => {ranking[i][1] : i \in 1 .. Len(ranking)}
       = Elements(ReportedStatistics[params.community_id].members)

\* the edges of the graph taken in both directions
UndirectedEdgeSet == Graph_EdgeSet \cup {<<p[2], p[1]>> : p \in Graph_EdgeSet}

\* C29: in the result of detect_communities_label_propagation, whatever the
\* visiting order, two vertices share a community only if they lie in the
\* same weakly connected component, and a vertex without successors and
\* predecessors is alone in its community.
C29_CommunitiesWithinComponents ==
    MethodReturned("detect_communities_label_propagation") =>
        /\ \A u, v \in Vertices :
               u # v /\ labels[u] = labels[v] => Reaches(UndirectedEdgeSet, u, v)
        /\ \A v \in Vertices :
               (\A p \in Graph_EdgeSet : p[1] # v /\ p[2] # v)
               => \A u \in Vertices \ {v} : labels[u] # labels[v]

\* 0 -> 1 with 2 apart: 0 and 1 share a community and 2 is alone
C29_Witness ==
    /\ MethodReturned("detect_communities_label_propagation")
    /\ num_vertices = 3
    /\ Graph_EdgeSet = {<<0, 1>>}
    /\ labels[0] = labels[1]
    /\ labels[2] # labels[0]

\* the weight store of each representation describes the edges it holds
StoreMatchesEdges ==
    /\ \A u \in Vertices : \A i, j \in 1 .. Len(list_adjacency_list[u]) :
           i # j => list_adjacency_list[u][i] # list_adjacency_list[u][j]
    /\ DOMAIN list_edge_weights =
           {p \in VertexPairs : In(p[2], list_adjacency_list[p[1]])}
    /\ \A p \in VertexPairs :
           ~matrix_adjacency_matrix[p] => matrix_edge_weights[p] = 0

\* an edge that a step adds has weight 0 after the step
AddedEdgesWeighZero ==
    \A p \in VertexPairs :
        /\ (~In(p[2], list_adjacency_list[p[1]])
            /\ In(p[2], list_adjacency_list'[p[1]]))
           => list_edge_weights'[p] = 0
        /\ (~matrix_adjacency_matrix[p] /\ matrix_adjacency_matrix'[p])
           => matrix_edge_weights'[p] = 0

\* C30: after any sequence of operations every successor list is free of
\* duplicates, the keys of the weight dictionary are exactly the present
\* edges, and the weight matrix holds 0 wherever the adjacency matrix holds
\* false; an edge that is added, also after it was removed, has weight 0.
C30_WeightStoreMatchesEdges ==
    StoreMatchesEdges /\ [][StoreMatchesEdges' /\ AddedEdgesWeighZero]_vars

\* the edge 0 -> 1, which had a weight other than 0, was removed and added
\* again: it is there with weight 0 in both representations
C30_Witness ==
    /\ call.op = "add_edge"
    /\ call.args = <<0, 1>>
    /\ list_raised = NoException
    /\ matrix_raised = NoException
    /\ In(1, list_adjacency_list[0])
    /\ list_edge_weights[<<0, 1>>] = 0
    /\ matrix_adjacency_matrix[0, 1]
    /\ matrix_edge_weights[0, 1] = 0

====
